---- MODULE Spec2Model ----
(***************************************************************************)
(* Model of the outbound collections voice agent: the JSON job store and   *)
(* its job state machine (src/api/job_store.py,                            *)
(* src/api/outbound_orchestration.py), the pre-dial compliance gate and    *)
(* the attempt ledger (src/api/compliance.py,                              *)
(* src/api/contact_attempt_store.py), the queue worker                     *)
(* (scripts/run_outbound_worker.py) and the dialog engine                  *)
(* (src/outbound_voice_agent/agent.py).                                    *)
(*                                                                         *)
(* Times are whole seconds since an epoch that falls on a UTC midnight.    *)
(* Python's None is NoTime for an optional timestamp and "None" for an     *)
(* optional string.  An operation that raises returns ok = FALSE and       *)
(* writes nothing.                                                         *)
(***************************************************************************)
EXTENDS Integers, Sequences, FiniteSets, TLC

VARIABLES
    jobs,      \* runtime/jobs: job_id -> persisted job record (one file per job)
    ledger,    \* runtime/attempts: account_ref -> sequence of ledger events
    now,       \* the wall clock, in seconds
    ticks,     \* how many times the clock has advanced (bounds the model)
    last,      \* how the last store call ended: returned, raised, created, existing
    wpc,       \* worker process -> position inside _process_one_job
    wjob,      \* worker process -> job_id returned by its lease (0 if none)
    wsnap,     \* worker process -> the jobs it loaded in lease_next_due_job
    wleased,   \* worker process -> the job record returned by the lease
    wnow,      \* worker process -> now_utc taken before the gate
    wdec,      \* worker process -> the gate's decision
    werr,      \* worker process -> error_code of the exception being handled
    wdone,     \* worker process -> main's loop has ended (the worker runs with --once)
    call,      \* the CallState of the call under conversation
    resp,      \* the last response of start_call / handle_turn
    record     \* runtime/calls: the call record of the call (one file per call)

jobVars == <<jobs, ledger, now, ticks, last>>
workerVars == <<wpc, wjob, wsnap, wleased, wnow, wdec, werr, wdone>>
callVars == <<call, resp, record>>
vars == <<jobs, ledger, now, ticks, last, wpc, wjob, wsnap, wleased, wnow, wdec, werr, wdone, call, resp, record>>

----------------------------------------------------------------------------
(* Bounds of the model *)

MaxTicks == 1
MaxTotalTurns == 7
MaxTurnRows == 9

JobIds == {1, 2}
NoTime == 0 - 1
NoStr == "None"

----------------------------------------------------------------------------
(* src/api/outbound_orchestration.py: the job state machine *)

JobState == {"queued", "leased", "running", "waiting_retry",
             "succeeded", "failed", "dead_letter", "canceled"}

JobEvent == {"lease", "start", "call_succeeded", "call_failed",
             "schedule_retry", "retry_ready", "exhaust_retries", "cancel"}

STATE_TRANSITIONS ==
    { <<"queued", "lease", "leased">>,
      <<"leased", "start", "running">>,
      <<"running", "call_succeeded", "succeeded">>,
      <<"running", "call_failed", "failed">>,
      <<"leased", "schedule_retry", "waiting_retry">>,
      <<"failed", "schedule_retry", "waiting_retry">>,
      <<"waiting_retry", "retry_ready", "queued">>,
      <<"failed", "exhaust_retries", "dead_letter">>,
      <<"queued", "cancel", "canceled">>,
      <<"leased", "cancel", "canceled">>,
      <<"running", "cancel", "canceled">>,
      <<"waiting_retry", "cancel", "canceled">> }

\* key in STATE_TRANSITIONS
can_transition(current, event) ==
    \E t \in STATE_TRANSITIONS : t[1] = current /\ t[2] = event

\* STATE_TRANSITIONS[key]; callers test can_transition first (else ValueError)
transition_state(current, event) ==
    (CHOOSE t \in STATE_TRANSITIONS : t[1] = current /\ t[2] = event)[3]

is_terminal_state(state) == state \in {"succeeded", "dead_letter", "canceled"}

RECURSIVE Pow2(_)
Pow2(n) == IF n <= 0 THEN 1 ELSE 2 * Pow2(n - 1)

Max(a, b) == IF a >= b THEN a ELSE b

\* datetime values carry microseconds: the clock of the model counts ticks of
\* half a second, and every timestamp is a number of ticks
TicksPerSecond == 2

\* timedelta(seconds=n)
Seconds(n) == n * TicksPerSecond

compute_retry_delay_seconds(attempt_number, base_delay_seconds, max_delay_seconds) ==
    LET delay == base_delay_seconds * Pow2(Max(0, attempt_number - 1))
    IN IF delay <= max_delay_seconds THEN delay ELSE max_delay_seconds

\* sha256 of "campaign|account|scheduled", taken as collision free
build_idempotency_key(campaign_id, account_ref, scheduled_for_utc) ==
    <<campaign_id, account_ref, scheduled_for_utc>>

create_job(trigger_source, campaign_id, payload, policy, scheduled_for_utc, priority, retry_policy, t) ==
    LET scheduled == IF scheduled_for_utc = NoTime THEN t ELSE scheduled_for_utc
    IN [ idempotency_key |-> build_idempotency_key(campaign_id, payload.account_ref, scheduled),
         trigger_source |-> trigger_source,
         campaign_id |-> campaign_id,
         priority |-> priority,
         created_at_utc |-> t,
         scheduled_for_utc |-> scheduled,
         state |-> "queued",
         payload |-> payload,
         policy |-> policy,
         retry_policy |-> retry_policy,
         lease_owner |-> NoStr,
         lease_expires_at_utc |-> NoTime,
         next_attempt_at_utc |-> scheduled,
         attempts |-> << >>,
         failure_reason |-> NoStr ]

Raise(job) == [ok |-> FALSE, job |-> job]
Return(job) == [ok |-> TRUE, job |-> job]

lease_job(job, worker_id, lease_seconds, t) ==
    IF job.state # "queued" THEN Raise(job)
    ELSE Return([job EXCEPT !.state = transition_state(job.state, "lease"),
                            !.lease_owner = worker_id,
                            !.lease_expires_at_utc = t + Seconds(lease_seconds)])

start_job_attempt(job, t) ==
    IF job.state # "leased" THEN Raise(job)
    ELSE Return([job EXCEPT
            !.state = transition_state(job.state, "start"),
            !.attempts = Append(job.attempts,
                [ attempt_number |-> Len(job.attempts) + 1,
                  started_at_utc |-> t,
                  ended_at_utc |-> NoTime,
                  outcome_code |-> NoStr,
                  error_code |-> NoStr,
                  call_id |-> NoStr ])])

\* faulty variant of move_retry_to_queue: the due time is not compared with now
move_retry_to_queue_early(job, t) ==
    IF job.state # "waiting_retry" THEN Raise(job)
    ELSE IF job.next_attempt_at_utc = NoTime THEN Raise(job)
    ELSE Return([job EXCEPT !.state = "queued", !.next_attempt_at_utc = t])

move_retry_to_queue(job, t) ==
    IF job.state # "waiting_retry" THEN Raise(job)
    ELSE IF job.next_attempt_at_utc = NoTime THEN Raise(job)
    ELSE IF t < job.next_attempt_at_utc THEN Raise(job)
    ELSE Return([job EXCEPT !.state = transition_state(job.state, "retry_ready"),
                            !.next_attempt_at_utc = t])

\* faulty variant of can_attempt_again: one attempt more than the budget
can_attempt_again_inclusive(job) == Len(job.attempts) <= job.retry_policy.max_attempts

can_attempt_again(job) == Len(job.attempts) < job.retry_policy.max_attempts

CloseLast(attempts, t, field, code) ==
    [attempts EXCEPT ![Len(attempts)] =
        IF field = "outcome_code"
        THEN [@ EXCEPT !.ended_at_utc = t, !.outcome_code = code]
        ELSE [@ EXCEPT !.ended_at_utc = t, !.error_code = code]]

\* faulty variant of mark_failed_and_schedule_retry: with the retries
\* exhausted the job is left in the state call_failed gave it
mark_failed_without_dead_letter(job, error_code, t) ==
    IF Len(job.attempts) = 0 THEN Raise(job)
    ELSE IF ~can_transition(job.state, "call_failed") THEN Raise(job)
    ELSE
      LET closed == [job EXCEPT !.attempts = CloseLast(job.attempts, t, "error_code", error_code),
                                !.state = transition_state(job.state, "call_failed")]
      IN IF ~can_attempt_again(closed)
         THEN Return([closed EXCEPT !.failure_reason = error_code])
         ELSE Return([closed EXCEPT
                !.state = transition_state(closed.state, "schedule_retry"),
                !.next_attempt_at_utc = t + Seconds(compute_retry_delay_seconds(
                    Len(closed.attempts),
                    closed.retry_policy.base_delay_seconds,
                    closed.retry_policy.max_delay_seconds)),
                !.lease_owner = NoStr,
                !.lease_expires_at_utc = NoTime])

mark_failed_and_schedule_retry(job, error_code, t) ==
    IF Len(job.attempts) = 0 THEN Raise(job)
    ELSE IF ~can_transition(job.state, "call_failed") THEN Raise(job)
    ELSE
      LET closed == [job EXCEPT !.attempts = CloseLast(job.attempts, t, "error_code", error_code),
                                !.state = transition_state(job.state, "call_failed")]
      IN IF ~can_attempt_again(closed)
         THEN Return([closed EXCEPT !.state = transition_state(closed.state, "exhaust_retries"),
                                    !.failure_reason = error_code])
         ELSE Return([closed EXCEPT
                !.state = transition_state(closed.state, "schedule_retry"),
                !.next_attempt_at_utc = t + Seconds(compute_retry_delay_seconds(
                    Len(closed.attempts),
                    closed.retry_policy.base_delay_seconds,
                    closed.retry_policy.max_delay_seconds)),
                !.lease_owner = NoStr,
                !.lease_expires_at_utc = NoTime])

\* faulty variant of mark_succeeded: the transition table is not consulted
mark_succeeded_any_state(job, t, outcome_code) ==
    IF Len(job.attempts) = 0 THEN Raise(job)
    ELSE Return([job EXCEPT
            !.attempts = CloseLast(job.attempts, t, "outcome_code", outcome_code),
            !.state = "succeeded",
            !.lease_owner = NoStr,
            !.lease_expires_at_utc = NoTime,
            !.next_attempt_at_utc = NoTime])

mark_succeeded(job, t, outcome_code) ==
    IF Len(job.attempts) = 0 THEN Raise(job)
    ELSE IF ~can_transition(job.state, "call_succeeded") THEN Raise(job)
    ELSE Return([job EXCEPT
            !.attempts = CloseLast(job.attempts, t, "outcome_code", outcome_code),
            !.state = transition_state(job.state, "call_succeeded"),
            !.lease_owner = NoStr,
            !.lease_expires_at_utc = NoTime,
            !.next_attempt_at_utc = NoTime])

----------------------------------------------------------------------------
(* src/api/job_store.py: JsonJobStore over a directory view S (job_id -> record) *)

_is_due(job, t) ==
    LET due_at == IF job.next_attempt_at_utc # NoTime THEN job.next_attempt_at_utc
                  ELSE job.scheduled_for_utc
    IN due_at <= t

\* faulty variant of _find_by_idempotency_locked: the scan finds nothing
find_by_idempotency_never(S, idempotency_key) == 0

\* the first job, in path order, holding the key; 0 when there is none
_find_by_idempotency_locked(S, idempotency_key) ==
    LET hits == {j \in DOMAIN S : S[j].idempotency_key = idempotency_key}
    IN IF hits = {} THEN 0 ELSE CHOOSE j \in hits : \A k \in hits : j <= k

\* the records requeue_due_retries / the first loop of lease_next_due_job write
RetryWrites(S, t) ==
    LET due == {j \in DOMAIN S : S[j].state = "waiting_retry" /\ move_retry_to_queue(S[j], t).ok}
    IN [j \in due |-> move_retry_to_queue(S[j], t).job]

Overlay(S, writes) ==
    [j \in DOMAIN S \cup DOMAIN writes |-> IF j \in DOMAIN writes THEN writes[j] ELSE S[j]]

\* faulty variant of SortsBefore: the candidates stay in path order
sorts_by_path(S, a, b) == a <= b

\* sort key (priority, created_at_utc); the sort is stable over the path order
SortsBefore(S, a, b) ==
    \/ S[a].priority < S[b].priority
    \/ S[a].priority = S[b].priority /\ S[a].created_at_utc < S[b].created_at_utc
    \/ S[a].priority = S[b].priority /\ S[a].created_at_utc = S[b].created_at_utc /\ a <= b

\* what lease_next_due_job does to the jobs it loaded: the records it writes and
\* the job it returns (ret = 0 for None)
lease_next_due_job(S, worker_id, lease_seconds, t) ==
    LET retried == RetryWrites(S, t)
        loaded == Overlay(S, retried)
        candidates == {j \in DOMAIN loaded : loaded[j].state = "queued" /\ _is_due(loaded[j], t)}
    IN IF candidates = {} THEN [writes |-> retried, ret |-> 0]
       ELSE LET selected == CHOOSE j \in candidates : \A k \in candidates : SortsBefore(loaded, j, k)
                leased == lease_job(loaded[selected], worker_id, lease_seconds, t).job
            IN [writes |-> Overlay(retried, (selected :> leased)), ret |-> selected]

mark_job_started(S, job_id, t) ==
    IF job_id \notin DOMAIN S THEN [ok |-> FALSE, writes |-> << >>]
    ELSE LET r == start_job_attempt(S[job_id], t)
         IN IF r.ok THEN [ok |-> TRUE, writes |-> (job_id :> r.job)]
            ELSE [ok |-> FALSE, writes |-> << >>]

\* faulty variant of defer_leased_job: the job goes straight back to queued
defer_leased_job_to_queued(S, job_id, error_code, delay_seconds, t) ==
    IF job_id \notin DOMAIN S THEN [ok |-> FALSE, writes |-> << >>]
    ELSE IF S[job_id].state # "leased" THEN [ok |-> FALSE, writes |-> << >>]
    ELSE [ok |-> TRUE, writes |-> (job_id :> [S[job_id] EXCEPT
            !.state = "queued",
            !.next_attempt_at_utc = t + Seconds(Max(1, delay_seconds)),
            !.failure_reason = error_code,
            !.lease_owner = NoStr,
            !.lease_expires_at_utc = NoTime])]

\* faulty variant of defer_leased_job: the deferral is recorded as an attempt
defer_leased_job_counts_attempt(S, job_id, error_code, delay_seconds, t) ==
    IF job_id \notin DOMAIN S THEN [ok |-> FALSE, writes |-> << >>]
    ELSE IF S[job_id].state # "leased" THEN [ok |-> FALSE, writes |-> << >>]
    ELSE [ok |-> TRUE, writes |-> (job_id :> [S[job_id] EXCEPT
            !.state = "waiting_retry",
            !.next_attempt_at_utc = t + Seconds(Max(1, delay_seconds)),
            !.failure_reason = error_code,
            !.lease_owner = NoStr,
            !.lease_expires_at_utc = NoTime,
            !.attempts = Append(@, [ attempt_number |-> Len(@) + 1,
                                     started_at_utc |-> t,
                                     ended_at_utc |-> t,
                                     outcome_code |-> NoStr,
                                     error_code |-> error_code,
                                     call_id |-> NoStr ])])]

defer_leased_job(S, job_id, error_code, delay_seconds, t) ==
    IF job_id \notin DOMAIN S THEN [ok |-> FALSE, writes |-> << >>]
    ELSE IF S[job_id].state # "leased" THEN [ok |-> FALSE, writes |-> << >>]
    ELSE [ok |-> TRUE, writes |-> (job_id :> [S[job_id] EXCEPT
            !.state = transition_state(S[job_id].state, "schedule_retry"),
            !.next_attempt_at_utc = t + Seconds(Max(1, delay_seconds)),
            !.failure_reason = error_code,
            !.lease_owner = NoStr,
            !.lease_expires_at_utc = NoTime])]

\* faulty variant of cancel_job: the transition table is not consulted
cancel_job_unchecked(S, job_id, reason_code) ==
    IF job_id \notin DOMAIN S THEN [ok |-> FALSE, writes |-> << >>]
    ELSE [ok |-> TRUE, writes |-> (job_id :> [S[job_id] EXCEPT
            !.state = "canceled",
            !.failure_reason = reason_code,
            !.lease_owner = NoStr,
            !.lease_expires_at_utc = NoTime])]

cancel_job(S, job_id, reason_code) ==
    IF job_id \notin DOMAIN S THEN [ok |-> FALSE, writes |-> << >>]
    ELSE IF ~can_transition(S[job_id].state, "cancel") THEN [ok |-> FALSE, writes |-> << >>]
    ELSE [ok |-> TRUE, writes |-> (job_id :> [S[job_id] EXCEPT
            !.state = transition_state(S[job_id].state, "cancel"),
            !.failure_reason = reason_code,
            !.lease_owner = NoStr,
            !.lease_expires_at_utc = NoTime])]

\* job.attempts[-1].call_id = call_id when there is an attempt and a call_id
WithCallId(job, call_id) ==
    IF Len(job.attempts) > 0 /\ call_id # NoStr
    THEN [job EXCEPT !.attempts[Len(job.attempts)].call_id = call_id]
    ELSE job

mark_job_succeeded(S, job_id, outcome_code, call_id, t) ==
    IF job_id \notin DOMAIN S THEN [ok |-> FALSE, writes |-> << >>]
    ELSE LET r == mark_succeeded(WithCallId(S[job_id], call_id), t, outcome_code)
         IN IF r.ok THEN [ok |-> TRUE, writes |-> (job_id :> r.job)]
            ELSE [ok |-> FALSE, writes |-> << >>]

mark_job_failed(S, job_id, error_code, call_id, t) ==
    IF job_id \notin DOMAIN S THEN [ok |-> FALSE, writes |-> << >>]
    ELSE LET r == mark_failed_and_schedule_retry(WithCallId(S[job_id], call_id), error_code, t)
         IN IF r.ok THEN [ok |-> TRUE, writes |-> (job_id :> r.job)]
            ELSE [ok |-> FALSE, writes |-> << >>]

----------------------------------------------------------------------------
(* src/api/contact_attempt_store.py: the per-account attempt ledger *)

DaySeconds == 86400

\* ZoneInfo(name).utcoffset, in seconds (standard time); unknown zones fall back to UTC
UtcOffset(timezone_name) ==
    IF timezone_name = "America/Chicago" THEN 0 - 21600 ELSE 0

\* astimezone(tz).date() as a day number
LocalDay(t, timezone_name) == (t + Seconds(UtcOffset(timezone_name))) \div Seconds(DaySeconds)

append_event(L, account_ref, decision_code, counts_toward_attempt, job_id, call_id, t) ==
    [L EXCEPT ![account_ref] = Append(@,
        [ recorded_at_utc |-> t,
          job_id |-> job_id,
          call_id |-> call_id,
          decision_code |-> decision_code,
          counts_toward_attempt |-> counts_toward_attempt ])]

list_events(L, account_ref) == L[account_ref]

\* count_attempts_for_local_day without its counts_toward_attempt test
count_attempts_for_local_day_every_event(L, account_ref, timezone_name, local_day) ==
    LET events == list_events(L, account_ref)
    IN Cardinality({i \in 1..Len(events) :
            LocalDay(events[i].recorded_at_utc, timezone_name) = local_day})

count_attempts_for_local_day(L, account_ref, timezone_name, local_day) ==
    LET events == list_events(L, account_ref)
    IN Cardinality({i \in 1..Len(events) :
            /\ events[i].counts_toward_attempt
            /\ LocalDay(events[i].recorded_at_utc, timezone_name) = local_day})

get_last_counted_attempt_at_utc(L, account_ref) ==
    LET events == list_events(L, account_ref)
        counted == {events[i].recorded_at_utc : i \in {k \in 1..Len(events) : events[k].counts_toward_attempt}}
    IN IF counted = {} THEN NoTime ELSE CHOOSE t \in counted : \A u \in counted : u <= t

----------------------------------------------------------------------------
(* src/api/compliance.py: the pre-dial gate *)

\* A window string "HH:MM-HH:MM" is held as the four numbers it spells; text
\* that does not split into them (no "-", no ":", a non-number) has
\* wellformed = FALSE, and for it _parse_window raises.
Window(start_h, start_m, end_h, end_m) ==
    [ wellformed |-> TRUE, start_h |-> start_h, start_m |-> start_m,
      end_h |-> end_h, end_m |-> end_m ]

MalformedWindow ==
    [ wellformed |-> FALSE, start_h |-> 0, start_m |-> 0, end_h |-> 0, end_m |-> 0 ]

\* no range check on hours or minutes: "25:00-26:00" parses to (1500, 1560)
_parse_window(window) ==
    [ ok |-> window.wellformed,
      start |-> window.start_h * 60 + window.start_m,
      end |-> window.end_h * 60 + window.end_m ]

\* local_now.hour * 60 + local_now.minute in the policy's zone
LocalMinutes(t, timezone_name) ==
    ((t + Seconds(UtcOffset(timezone_name))) % Seconds(DaySeconds)) \div Seconds(60)

\* faulty variant of _is_local_time_allowed: the end of a window is excluded
_is_local_time_allowed_end_exclusive(policy, t) ==
    IF Len(policy.allowed_local_time_ranges) = 0 THEN TRUE
    ELSE LET current_minutes == LocalMinutes(t, policy.timezone)
         IN \E i \in 1..Len(policy.allowed_local_time_ranges) :
               LET w == _parse_window(policy.allowed_local_time_ranges[i])
               IN /\ w.ok
                  /\ IF w.start <= w.end
                     THEN w.start <= current_minutes /\ current_minutes < w.end
                     ELSE current_minutes >= w.start \/ current_minutes < w.end

\* a window that does not parse is skipped
_is_local_time_allowed(policy, t) ==
    IF Len(policy.allowed_local_time_ranges) = 0 THEN TRUE
    ELSE LET current_minutes == LocalMinutes(t, policy.timezone)
         IN \E i \in 1..Len(policy.allowed_local_time_ranges) :
               LET w == _parse_window(policy.allowed_local_time_ranges[i])
               IN /\ w.ok
                  /\ IF w.start <= w.end
                     THEN w.start <= current_minutes /\ current_minutes <= w.end
                     ELSE current_minutes >= w.start \/ current_minutes <= w.end

PreDialDecision(allowed, reason_code, retryable, attempts_today, retry_after_seconds, remaining) ==
    [ allowed |-> allowed,
      reason_code |-> reason_code,
      retryable |-> retryable,
      attempts_today |-> attempts_today,
      retry_after_seconds |-> retry_after_seconds,
      min_gap_blocked_minutes_remaining |-> remaining ]

\* int(round(x)) for x the duration in minutes, a float:
\* Python rounds a half to the even integer
RoundMinutes(duration) ==
    LET d == Seconds(60)
        q == duration \div d
        r == duration % d
    IN IF 2 * r > d THEN q + 1
       ELSE IF 2 * r < d THEN q
       ELSE IF q % 2 = 0 THEN q ELSE q + 1

WindowRetrySeconds == 900
MinCapRetrySeconds == 60

\* faulty variant of evaluate_pre_dial_gate: every dial is allowed
gate_always_allowed(account_ref, policy, suppression_flags, L, t) ==
    PreDialDecision(TRUE, "allowed", TRUE, 0, NoTime, NoTime)

\* faulty variant of evaluate_pre_dial_gate: the min-gap check runs before the daily cap
evaluate_pre_dial_gate_gap_first(account_ref, policy, suppression_flags, L, t) ==
    IF suppression_flags.dnc
    THEN PreDialDecision(FALSE, "blocked_suppression_dnc", FALSE, 0, NoTime, NoTime)
    ELSE IF suppression_flags.cease_contact
    THEN PreDialDecision(FALSE, "blocked_suppression_cease_contact", FALSE, 0, NoTime, NoTime)
    ELSE IF suppression_flags.legal_hold
    THEN PreDialDecision(FALSE, "blocked_suppression_legal_hold", FALSE, 0, NoTime, NoTime)
    ELSE IF ~_is_local_time_allowed(policy, t)
    THEN PreDialDecision(FALSE, "blocked_policy_outside_call_window", TRUE, 0, WindowRetrySeconds, NoTime)
    ELSE
      LET local_day == LocalDay(t, policy.timezone)
          attempts_today == count_attempts_for_local_day(L, account_ref, policy.timezone, local_day)
          next_local_midnight == (local_day + 1) * Seconds(DaySeconds) - Seconds(UtcOffset(policy.timezone))
          last_attempt == get_last_counted_attempt_at_utc(L, account_ref)
          missing == Seconds(policy.min_gap_minutes * 60) - (t - last_attempt)
          remaining == Max(1, RoundMinutes(missing))
      IN IF last_attempt # NoTime /\ missing > 0
         THEN PreDialDecision(FALSE, "blocked_policy_min_gap", TRUE, attempts_today,
                              remaining * 60, remaining)
         ELSE IF attempts_today >= policy.daily_attempt_cap
         THEN PreDialDecision(FALSE, "blocked_policy_daily_attempt_cap", TRUE, attempts_today,
                              Max(MinCapRetrySeconds, (next_local_midnight - t) \div TicksPerSecond), NoTime)
         ELSE PreDialDecision(TRUE, "allowed", TRUE, attempts_today, NoTime, NoTime)

evaluate_pre_dial_gate(account_ref, policy, suppression_flags, L, t) ==
    IF suppression_flags.dnc
    THEN PreDialDecision(FALSE, "blocked_suppression_dnc", FALSE, 0, NoTime, NoTime)
    ELSE IF suppression_flags.cease_contact
    THEN PreDialDecision(FALSE, "blocked_suppression_cease_contact", FALSE, 0, NoTime, NoTime)
    ELSE IF suppression_flags.legal_hold
    THEN PreDialDecision(FALSE, "blocked_suppression_legal_hold", FALSE, 0, NoTime, NoTime)
    ELSE IF ~_is_local_time_allowed(policy, t)
    THEN PreDialDecision(FALSE, "blocked_policy_outside_call_window", TRUE, 0, WindowRetrySeconds, NoTime)
    ELSE
      LET local_day == LocalDay(t, policy.timezone)
          attempts_today == count_attempts_for_local_day(L, account_ref, policy.timezone, local_day)
          next_local_midnight == (local_day + 1) * Seconds(DaySeconds) - Seconds(UtcOffset(policy.timezone))
          last_attempt == get_last_counted_attempt_at_utc(L, account_ref)
          missing == Seconds(policy.min_gap_minutes * 60) - (t - last_attempt)
          remaining == Max(1, RoundMinutes(missing))
      IN IF attempts_today >= policy.daily_attempt_cap
         THEN PreDialDecision(FALSE, "blocked_policy_daily_attempt_cap", TRUE, attempts_today,
                              Max(MinCapRetrySeconds, (next_local_midnight - t) \div TicksPerSecond), NoTime)
         ELSE IF last_attempt # NoTime /\ missing > 0
         THEN PreDialDecision(FALSE, "blocked_policy_min_gap", TRUE, attempts_today,
                              remaining * 60, remaining)
         ELSE PreDialDecision(TRUE, "allowed", TRUE, attempts_today, NoTime, NoTime)

----------------------------------------------------------------------------
(* src/outbound_voice_agent/state.py: CallState() with its defaults *)

NoDate == << >>

CallState ==
    [ phase |-> "pre_verification",
      turn_count |-> 0,
      right_party_verified |-> FALSE,
      right_party_confidence |-> 0,
      verification_attempts |-> 0,
      silence_count |-> 0,
      last_proposed_payment_date |-> NoDate,
      escalation_flag |-> FALSE,
      target_reached |-> "unknown",
      consent_to_continue |-> "unknown",
      disclosure_delivered |-> FALSE,
      mini_miranda_acknowledged |-> FALSE,
      negotiation_proposals_count |-> 0,
      reconduction_attempts |-> 0,
      clarification_attempts |-> 0,
      last_user_utterance |-> "",
      last_assistant_question |-> "",
      last_assistant_intent |-> "",
      user_sentiment |-> "neutral",
      wrong_party_indicated |-> FALSE,
      voicemail_detected |-> FALSE,
      dispute_flag |-> FALSE,
      hardship_flag |-> FALSE,
      cease_contact_requested |-> FALSE,
      promise_to_pay |-> [date |-> NoDate, amount |-> NoStr, confirmed |-> FALSE],
      callback |-> [requested |-> FALSE, datetime_local |-> NoStr],
      escalation_reason |-> NoStr,
      end_reason |-> NoStr ]

----------------------------------------------------------------------------
(* src/outbound_voice_agent/intent_classifier.py *)

\* the transcripts the model speaks; "" is the empty transcript
Transcripts ==
    { "yes", "no", "who is this", "wrong number", "stop calling", "goodbye",
      "I want a representative", "I dispute this", "I can't pay", "not sure",
      "I'm busy", "I'm not comfortable", "hmm", "78701", "12345",
      "February 20", "March 5", "friday" }

\* the labels whose pattern of _PATTERNS finds a match in the transcript
\* ("I can't pay" holds "i can", "not sure" holds "sure")
PatternHits(text) ==
    CASE text = "yes" -> {"affirmation"}
      [] text = "no" -> {"negation"}
      [] text = "who is this" -> {"identity_question"}
      [] text = "wrong number" -> {"wrong_party"}
      [] text = "stop calling" -> {"stop_request"}
      [] text = "goodbye" -> {"goodbye"}
      [] text = "I want a representative" -> {"human_handoff"}
      [] text = "I dispute this" -> {"dispute"}
      [] text = "I can't pay" -> {"refusal", "affirmation", "negation"}
      [] text = "not sure" -> {"uncertain", "affirmation", "negation"}
      [] text = "I'm busy" -> {"busy"}
      [] text = "I'm not comfortable" -> {"uncomfortable", "negation"}
      [] OTHER -> {}

_PRIORITY ==
    << "stop_request", "goodbye", "human_handoff", "wrong_party", "dispute", "busy",
       "uncomfortable", "refusal", "uncertain", "identity_question", "affirmation", "negation" >>

\* confidences in hundredths
_BASE_CONFIDENCE ==
    [ stop_request |-> 93, goodbye |-> 90, human_handoff |-> 88, wrong_party |-> 90,
      dispute |-> 90, busy |-> 82, uncomfortable |-> 75, refusal |-> 86, uncertain |-> 74,
      identity_question |-> 76, affirmation |-> 72, negation |-> 72 ]

IntentClassification(primary_intent, confidence, scores, matched_intents) ==
    [ primary_intent |-> primary_intent, confidence |-> confidence,
      scores |-> scores, matched_intents |-> matched_intents ]

\* IntentClassification.matched with the default threshold 0.5
matched(nlu, intent) ==
    (IF intent \in DOMAIN nlu.scores THEN nlu.scores[intent] ELSE 0) >= 50

classify_utterance(text) ==
    IF text = "" THEN IntentClassification("unknown", 0, [l \in {} |-> 0], {})
    ELSE
      LET matched_intents == PatternHits(text)
          scores == [l \in DOMAIN _BASE_CONFIDENCE |->
                        IF l \in matched_intents THEN _BASE_CONFIDENCE[l] ELSE 0]
          strong_intents == {"stop_request", "human_handoff", "wrong_party", "dispute",
                             "busy", "uncomfortable", "refusal"}
      IN IF matched_intents = {}
         THEN IntentClassification("unknown", 20, scores, {})
         ELSE IF /\ "affirmation" \in matched_intents
                 /\ "negation" \in matched_intents
                 /\ strong_intents \cap matched_intents = {}
         THEN IntentClassification("unknown", 30, scores, matched_intents)
         ELSE
           LET first == CHOOSE i \in 1..Len(_PRIORITY) :
                           /\ _PRIORITY[i] \in matched_intents
                           /\ \A k \in 1..(i - 1) : _PRIORITY[k] \notin matched_intents
               primary_intent == _PRIORITY[first]
               confidence == scores[primary_intent]
               near_ties == {l \in matched_intents :
                                l # primary_intent /\ scores[l] >= confidence - 8}
           IN IntentClassification(primary_intent,
                  IF near_ties # {} THEN Max(35, confidence - 15) ELSE confidence,
                  scores, matched_intents)

\* threshold 0.45
is_low_confidence_unknown(classification) ==
    classification.primary_intent = "unknown" /\ classification.confidence < 45

\* IntentClassification.to_dict, as the response carries it
NluOf(primary_intent, confidence, matched_intents) ==
    [ primary_intent |-> primary_intent, confidence |-> confidence,
      matched_intents |-> matched_intents ]

----------------------------------------------------------------------------
(* src/outbound_voice_agent/tools/date_normalizer.py, on the model's transcripts *)

\* dates are <<year, month, day>>; the calls of the model take place on this day
CurrentLocalDate == <<2026, 2, 9>>

\* ok, date and needs_confirmation of the result: "February 20" and "March 5"
\* are month/day phrases (rule 4), "friday" is a weekday (rule 5, the next
\* Friday on or after the current date, to be confirmed)
normalize_datetime_local(text, current_local_date) ==
    CASE text = "February 20" ->
            [ok |-> TRUE, needs_confirmation |-> FALSE,
             date |-> <<IF 2 < current_local_date[2] THEN current_local_date[1] + 1
                        ELSE current_local_date[1], 2, 20>>]
      [] text = "March 5" ->
            [ok |-> TRUE, needs_confirmation |-> FALSE,
             date |-> <<IF 3 < current_local_date[2] THEN current_local_date[1] + 1
                        ELSE current_local_date[1], 3, 5>>]
      [] text = "friday" /\ current_local_date = <<2026, 2, 9>> ->
            [ok |-> TRUE, needs_confirmation |-> TRUE, date |-> <<2026, 2, 13>>]
      [] text = "friday" /\ current_local_date = <<2026, 3, 2>> ->
            [ok |-> TRUE, needs_confirmation |-> TRUE, date |-> <<2026, 3, 6>>]
      [] OTHER -> [ok |-> FALSE, needs_confirmation |-> TRUE, date |-> NoDate]

----------------------------------------------------------------------------
(* src/outbound_voice_agent/agent.py.  An assistant text is named by a short  *)
(* key; the comments give the text's opening words.                           *)

TurnEvent(event_type, transcript) ==
    [ event_type |-> event_type, transcript |-> transcript,
      current_local_date |-> CurrentLocalDate ]

\* account_context: expected_zip and the amount _get_amount_due formats
ExpectedZip == "78701"
AmountDue == "240.00"

\* "today" in the text with one of "take care", "pay", "balance"
_is_today_payment_prompt(last_question_text) ==
    last_question_text \in {"pay_today", "disclosure"}

\* "find a day before the end of the month" or "what date before the end of the month"
_is_exact_date_request_prompt(last_question_text) ==
    last_question_text \in {"find_day", "ask_date"}

\* none of "no", "not", "can't", ... in the text, and one of "yes", "sure", "i can", ...
_looks_like_affirmative_today_response(user_text) ==
    user_text \in {"yes"}

\* the 5-digit ZIP the transcript yields, "" for None
_extract_zip(text) ==
    IF text \in {"78701", "12345"} THEN text ELSE ""

_is_current_month(proposed_iso, current_iso) ==
    proposed_iso[1] = current_iso[1] /\ proposed_iso[2] = current_iso[2]

_wrap_response(assistant_text, assistant_intent, actions, call_state) ==
    LET \* the texts in which _enforce_voice_first leaves a question mark
        \* within the two sentences it keeps
        spoken_questions ==
            { "greeting", "intro_role", "reprompt_target", "zip_retry", "ask_date",
              "ask_exact_date", "wait_calendar", "month_policy", "confirm_date",
              "partial_25th", "pay_today", "find_day", "disclosure", "clarify_target",
              "clarify_date", "zip_explain", "still_there" }
    IN [ assistant_text |-> assistant_text,
         assistant_intent |-> assistant_intent,
         actions |-> actions,
         call_state |-> [call_state EXCEPT
             !.last_assistant_question =
                 IF assistant_text \in spoken_questions THEN assistant_text ELSE @,
             !.last_assistant_intent = assistant_intent] ]

\* state.last_assistant_question = assistant_text; return _wrap_response(...)
Ask(state, assistant_text, assistant_intent) ==
    _wrap_response(assistant_text, assistant_intent, << >>,
                   [state EXCEPT !.last_assistant_question = assistant_text])

\* faulty variant of _close_call: the phase is ended, end_reason is left alone
_close_call_without_reason(state, text, outcome) ==
    _wrap_response(text, "close",
        << [action |-> "set_outcome", outcome_code |-> outcome],
           [action |-> "end_call", reason |-> outcome] >>,
        [state EXCEPT !.phase = "ended"])

_close_call(state, text, outcome) ==
    _wrap_response(text, "close",
        << [action |-> "set_outcome", outcome_code |-> outcome],
           [action |-> "end_call", reason |-> outcome] >>,
        [state EXCEPT !.phase = "ended", !.end_reason = outcome])

\* faulty variant of _escalate_and_end: end_call is emitted before
\* escalate_to_human
_escalate_and_end_hangs_up_first(state) ==
    LET outcome == "escalated_" \o (IF state.escalation_reason = NoStr THEN "unknown"
                                    ELSE state.escalation_reason)
    IN _wrap_response("hold_specialist", "escalate",
        << [action |-> "set_outcome", outcome_code |-> outcome],
           [action |-> "end_call", reason |-> outcome],
           [action |-> "escalate_to_human", reason |-> state.escalation_reason] >>,
        [state EXCEPT !.phase = "ended", !.end_reason = outcome])

_escalate_and_end(state) ==
    LET outcome == "escalated_" \o (IF state.escalation_reason = NoStr THEN "unknown"
                                    ELSE state.escalation_reason)
    IN _wrap_response("hold_specialist", "escalate",
        << [action |-> "set_outcome", outcome_code |-> outcome],
           [action |-> "escalate_to_human", reason |-> state.escalation_reason],
           [action |-> "end_call", reason |-> outcome] >>,
        [state EXCEPT !.phase = "ended", !.end_reason = outcome])

\* faulty variant of _end_with_limit: the farewell is said, the call stays open
_end_with_limit_call_open(state) ==
    _wrap_response("bye_limit", "close",
        << [action |-> "set_outcome", outcome_code |-> "max_turns"],
           [action |-> "end_call", reason |-> "max_turns"] >>, state)

_end_with_limit(state) == _close_call(state, "bye_limit", "max_turns")

\* faulty variant of _handle_silence: the second silence already closes the call
_handle_silence_after_two(state) ==
    LET s == [state EXCEPT !.silence_count = @ + 1]
    IN IF s.silence_count >= 2
       THEN _close_call(s, "bye_silence", "silence_timeout")
       ELSE _wrap_response("still_there", "handle_silence", << >>, s)

_handle_silence(state) ==
    LET s == [state EXCEPT !.silence_count = @ + 1]
    IN IF s.silence_count >= 3
       THEN _close_call(s, "bye_silence", "silence_timeout")
       ELSE _wrap_response("still_there", "handle_silence", << >>, s)

\* faulty variant of _handle_low_confidence: two clarifications before the escalation
_handle_low_confidence_clarifies_twice(state, phase) ==
    LET s == [state EXCEPT !.clarification_attempts = @ + 1]
    IN IF s.clarification_attempts <= 2
       THEN IF phase = "pre_verification" THEN Ask(s, "clarify_target", "request_target")
            ELSE IF phase = "verification" THEN Ask(s, "clarify_zip", "verify_identity")
            ELSE Ask(s, "clarify_date", "negotiate")
       ELSE _escalate_and_end([s EXCEPT !.escalation_flag = TRUE,
                                        !.escalation_reason = "low_confidence"])

_handle_low_confidence(state, phase) ==
    LET s == [state EXCEPT !.clarification_attempts = @ + 1]
    IN IF s.clarification_attempts <= 1
       THEN IF phase = "pre_verification" THEN Ask(s, "clarify_target", "request_target")
            ELSE IF phase = "verification" THEN Ask(s, "clarify_zip", "verify_identity")
            ELSE Ask(s, "clarify_date", "negotiate")
       ELSE _escalate_and_end([s EXCEPT !.escalation_flag = TRUE,
                                        !.escalation_reason = "low_confidence"])

\* faulty variant of _confirm_ptp: the promise is recorded and the call stays open
confirm_ptp_call_open(state, date_str, amount) ==
    _wrap_response("ptp_noted", "close",
        << [action |-> "set_outcome", outcome_code |-> "ptp_set"],
           [action |-> "create_promise_to_pay", date |-> date_str, amount |-> amount],
           [action |-> "end_call", reason |-> "ptp_set"] >>,
        [state EXCEPT !.promise_to_pay = [date |-> date_str, amount |-> amount, confirmed |-> TRUE],
                      !.last_proposed_payment_date = date_str])

_confirm_ptp(state, date_str, amount) ==
    _wrap_response("ptp_noted", "close",
        << [action |-> "set_outcome", outcome_code |-> "ptp_set"],
           [action |-> "create_promise_to_pay", date |-> date_str, amount |-> amount],
           [action |-> "end_call", reason |-> "ptp_set"] >>,
        [state EXCEPT !.promise_to_pay = [date |-> date_str, amount |-> amount, confirmed |-> TRUE],
                      !.last_proposed_payment_date = date_str,
                      !.phase = "ended",
                      !.end_reason = "ptp_set"])

_deliver_disclosure_and_start_negotiation(state) ==
    _wrap_response("disclosure", "deliver_disclosure", << >>,
        [state EXCEPT !.disclosure_delivered = TRUE, !.last_assistant_question = "disclosure"])

\* faulty variant of _ask_verification_question: the disclosure is read out at once
ask_verification_discloses(state) ==
    _deliver_disclosure_and_start_negotiation(state)

\* faulty variant of _ask_verification_question: a promise for today is recorded
ask_verification_promises(state) ==
    _confirm_ptp(state, CurrentLocalDate, AmountDue)

\* "what", "why" or "who" in the last utterance picks the longer text
_ask_verification_question(state) ==
    IF state.last_user_utterance \in {"who is this"}
    THEN Ask(state, "zip_explain", "verify_identity")
    ELSE Ask(state, "zip_ask", "verify_identity")

start_call(call_state) ==
    LET new_state == [call_state EXCEPT !.turn_count = @ + 1, !.last_assistant_question = "greeting"]
    IN _wrap_response("greeting", "request_target", << >>, new_state)

\* faulty variant of _handle_pre_verification: a yes to the greeting goes
\* straight to the disclosure, past the verification phase
_handle_pre_verification_skips_zip(turn_event, state, transcript, nlu) ==
    IF matched(nlu, "wrong_party")
    THEN _close_call([state EXCEPT !.wrong_party_indicated = TRUE, !.target_reached = "no"],
                     "bye_wrong_party", "wrong_party")
    ELSE IF matched(nlu, "identity_question")
    THEN Ask(state, "intro_role", "request_target")
    ELSE IF matched(nlu, "affirmation")
    THEN _deliver_disclosure_and_start_negotiation(
             [state EXCEPT !.target_reached = "yes", !.phase = "post_verification"])
    ELSE IF is_low_confidence_unknown(nlu)
    THEN _handle_low_confidence(state, "pre_verification")
    ELSE Ask(state, "reprompt_target", "request_target")

_handle_pre_verification(turn_event, state, transcript, nlu) ==
    IF matched(nlu, "wrong_party")
    THEN _close_call([state EXCEPT !.wrong_party_indicated = TRUE, !.target_reached = "no"],
                     "bye_wrong_party", "wrong_party")
    ELSE IF matched(nlu, "identity_question")
    THEN Ask(state, "intro_role", "request_target")
    ELSE IF matched(nlu, "affirmation")
    THEN _ask_verification_question([state EXCEPT !.target_reached = "yes", !.phase = "verification"])
    ELSE IF is_low_confidence_unknown(nlu)
    THEN _handle_low_confidence(state, "pre_verification")
    ELSE Ask(state, "reprompt_target", "request_target")

\* faulty variant of _handle_verification: any extractable ZIP verifies
_handle_verification_any_zip(turn_event, state, transcript, nlu) ==
    LET provided_zip == _extract_zip(transcript)
        refused == [state EXCEPT !.reconduction_attempts = @ + 1]
        failed == [state EXCEPT !.verification_attempts = @ + 1]
    IN IF matched(nlu, "uncomfortable") \/ matched(nlu, "negation")
       THEN IF refused.reconduction_attempts <= 2
            THEN Ask(refused, "privacy_callback", "negotiate")
            ELSE _close_call(refused, "bye_refused", "verification_refused")
       ELSE IF matched(nlu, "identity_question")
       THEN Ask(state, "verify_first", "verify_identity")
       ELSE IF provided_zip # ""
       THEN IF provided_zip # ""
            THEN _deliver_disclosure_and_start_negotiation(
                     [state EXCEPT !.right_party_verified = TRUE, !.phase = "post_verification"])
            ELSE IF failed.verification_attempts >= 3
            THEN _close_call(failed, "bye_zip_mismatch", "verification_failed")
            ELSE Ask(failed, "zip_retry", "verify_identity")
       ELSE IF is_low_confidence_unknown(nlu)
       THEN _handle_low_confidence(state, "verification")
       ELSE IF failed.verification_attempts >= 3
       THEN _close_call(failed, "bye_unverified", "verification_failed")
       ELSE Ask(failed, "zip_clearly", "verify_identity")

_handle_verification(turn_event, state, transcript, nlu) ==
    LET provided_zip == _extract_zip(transcript)
        refused == [state EXCEPT !.reconduction_attempts = @ + 1]
        failed == [state EXCEPT !.verification_attempts = @ + 1]
    IN IF matched(nlu, "uncomfortable") \/ matched(nlu, "negation")
       THEN IF refused.reconduction_attempts <= 2
            THEN Ask(refused, "privacy_callback", "negotiate")
            ELSE _close_call(refused, "bye_refused", "verification_refused")
       ELSE IF matched(nlu, "identity_question")
       THEN Ask(state, "verify_first", "verify_identity")
       ELSE IF provided_zip # ""
       THEN IF provided_zip = ExpectedZip
            THEN _deliver_disclosure_and_start_negotiation(
                     [state EXCEPT !.right_party_verified = TRUE, !.phase = "post_verification"])
            ELSE IF failed.verification_attempts >= 3
            THEN _close_call(failed, "bye_zip_mismatch", "verification_failed")
            ELSE Ask(failed, "zip_retry", "verify_identity")
       ELSE IF is_low_confidence_unknown(nlu)
       THEN _handle_low_confidence(state, "verification")
       ELSE IF failed.verification_attempts >= 3
       THEN _close_call(failed, "bye_unverified", "verification_failed")
       ELSE Ask(failed, "zip_clearly", "verify_identity")

\* faulty variant of _handle_negotiation: a date that needs confirmation is
\* promised at once
_handle_negotiation_no_confirmation(turn_event, state, transcript, nlu) ==
    LET amount == AmountDue
        last_q == state.last_assistant_question
        disputed == [state EXCEPT !.dispute_flag = TRUE, !.escalation_reason = "dispute"]
        proposals == [state EXCEPT !.negotiation_proposals_count = @ + 1]
        normalized == normalize_datetime_local(transcript, turn_event.current_local_date)
    IN IF state.last_assistant_intent = "deliver_disclosure" /\ matched(nlu, "dispute")
       THEN _escalate_and_end(disputed)
       ELSE IF state.last_assistant_intent = "deliver_disclosure" /\ matched(nlu, "affirmation")
       THEN _confirm_ptp(state, turn_event.current_local_date, amount)
       ELSE IF state.last_assistant_intent = "deliver_disclosure" /\ matched(nlu, "negation")
       THEN Ask(state, "ask_date", "negotiate")
       ELSE IF /\ state.last_assistant_intent = "confirm_payment_date"
               /\ state.last_proposed_payment_date # NoDate
               /\ matched(nlu, "affirmation")
       THEN _confirm_ptp(state, state.last_proposed_payment_date, amount)
       ELSE IF /\ state.last_assistant_intent = "confirm_payment_date"
               /\ state.last_proposed_payment_date # NoDate
               /\ matched(nlu, "negation")
       THEN Ask([state EXCEPT !.last_proposed_payment_date = NoDate], "ask_exact_date", "negotiate")
       ELSE IF matched(nlu, "dispute")
       THEN _escalate_and_end(disputed)
       ELSE IF matched(nlu, "refusal")
       THEN IF proposals.negotiation_proposals_count >= 2
            THEN _escalate_and_end([proposals EXCEPT !.escalation_reason = "hard_refusal"])
            ELSE Ask(proposals, "partial_offer", "negotiate")
       ELSE IF matched(nlu, "uncertain")
       THEN Ask(state, "wait_calendar", "negotiate")
       ELSE IF matched(nlu, "busy")
       THEN _close_call(state, "bye_busy", "busy")
       ELSE IF normalized.ok /\ normalized.date # NoDate
       THEN IF ~_is_current_month(normalized.date, turn_event.current_local_date)
            THEN Ask(state, "month_policy", "negotiate")
            ELSE IF FALSE
            THEN Ask([state EXCEPT !.last_proposed_payment_date = normalized.date],
                     "confirm_date", "confirm_payment_date")
            ELSE _confirm_ptp([state EXCEPT !.promise_to_pay =
                                  [date |-> normalized.date, amount |-> amount, confirmed |-> TRUE]],
                              normalized.date, amount)
       ELSE IF _is_today_payment_prompt(last_q) /\ _looks_like_affirmative_today_response(transcript)
       THEN _confirm_ptp(state, turn_event.current_local_date, amount)
       ELSE IF _is_today_payment_prompt(last_q) /\ matched(nlu, "negation")
       THEN Ask(state, "ask_date", "negotiate")
       ELSE IF _is_today_payment_prompt(last_q) /\ matched(nlu, "affirmation")
       THEN _confirm_ptp(state, turn_event.current_local_date, amount)
       ELSE IF _is_exact_date_request_prompt(last_q) /\ matched(nlu, "affirmation")
       THEN Ask(state, "date_example", "negotiate")
       ELSE IF matched(nlu, "negation") \/ matched(nlu, "refusal")
       THEN IF proposals.negotiation_proposals_count >= 2
            THEN _escalate_and_end([proposals EXCEPT !.escalation_reason = "multiple_refusals"])
            ELSE Ask(proposals, "partial_25th", "negotiate")
       ELSE IF state.last_assistant_intent = "deliver_disclosure"
       THEN Ask(state, "pay_today", "negotiate")
       ELSE IF is_low_confidence_unknown(nlu)
       THEN _handle_low_confidence(state, "post_verification")
       ELSE Ask(state, "find_day", "negotiate")

_handle_negotiation(turn_event, state, transcript, nlu) ==
    LET amount == AmountDue
        last_q == state.last_assistant_question
        disputed == [state EXCEPT !.dispute_flag = TRUE, !.escalation_reason = "dispute"]
        proposals == [state EXCEPT !.negotiation_proposals_count = @ + 1]
        normalized == normalize_datetime_local(transcript, turn_event.current_local_date)
    IN IF state.last_assistant_intent = "deliver_disclosure" /\ matched(nlu, "dispute")
       THEN _escalate_and_end(disputed)
       ELSE IF state.last_assistant_intent = "deliver_disclosure" /\ matched(nlu, "affirmation")
       THEN _confirm_ptp(state, turn_event.current_local_date, amount)
       ELSE IF state.last_assistant_intent = "deliver_disclosure" /\ matched(nlu, "negation")
       THEN Ask(state, "ask_date", "negotiate")
       ELSE IF /\ state.last_assistant_intent = "confirm_payment_date"
               /\ state.last_proposed_payment_date # NoDate
               /\ matched(nlu, "affirmation")
       THEN _confirm_ptp(state, state.last_proposed_payment_date, amount)
       ELSE IF /\ state.last_assistant_intent = "confirm_payment_date"
               /\ state.last_proposed_payment_date # NoDate
               /\ matched(nlu, "negation")
       THEN Ask([state EXCEPT !.last_proposed_payment_date = NoDate], "ask_exact_date", "negotiate")
       ELSE IF matched(nlu, "dispute")
       THEN _escalate_and_end(disputed)
       ELSE IF matched(nlu, "refusal")
       THEN IF proposals.negotiation_proposals_count >= 2
            THEN _escalate_and_end([proposals EXCEPT !.escalation_reason = "hard_refusal"])
            ELSE Ask(proposals, "partial_offer", "negotiate")
       ELSE IF matched(nlu, "uncertain")
       THEN Ask(state, "wait_calendar", "negotiate")
       ELSE IF matched(nlu, "busy")
       THEN _close_call(state, "bye_busy", "busy")
       ELSE IF normalized.ok /\ normalized.date # NoDate
       THEN IF ~_is_current_month(normalized.date, turn_event.current_local_date)
            THEN Ask(state, "month_policy", "negotiate")
            ELSE IF normalized.needs_confirmation
            THEN Ask([state EXCEPT !.last_proposed_payment_date = normalized.date],
                     "confirm_date", "confirm_payment_date")
            ELSE _confirm_ptp([state EXCEPT !.promise_to_pay =
                                  [date |-> normalized.date, amount |-> amount, confirmed |-> TRUE]],
                              normalized.date, amount)
       ELSE IF _is_today_payment_prompt(last_q) /\ _looks_like_affirmative_today_response(transcript)
       THEN _confirm_ptp(state, turn_event.current_local_date, amount)
       ELSE IF _is_today_payment_prompt(last_q) /\ matched(nlu, "negation")
       THEN Ask(state, "ask_date", "negotiate")
       ELSE IF _is_today_payment_prompt(last_q) /\ matched(nlu, "affirmation")
       THEN _confirm_ptp(state, turn_event.current_local_date, amount)
       ELSE IF _is_exact_date_request_prompt(last_q) /\ matched(nlu, "affirmation")
       THEN Ask(state, "date_example", "negotiate")
       ELSE IF matched(nlu, "negation") \/ matched(nlu, "refusal")
       THEN IF proposals.negotiation_proposals_count >= 2
            THEN _escalate_and_end([proposals EXCEPT !.escalation_reason = "multiple_refusals"])
            ELSE Ask(proposals, "partial_25th", "negotiate")
       ELSE IF state.last_assistant_intent = "deliver_disclosure"
       THEN Ask(state, "pay_today", "negotiate")
       ELSE IF is_low_confidence_unknown(nlu)
       THEN _handle_low_confidence(state, "post_verification")
       ELSE Ask(state, "find_day", "negotiate")

\* a response without the nlu key (start_call, the turn cap)
NoNlu == NluOf(NoStr, 0, {})

NoResponse ==
    [ assistant_text |-> "", assistant_intent |-> "", actions |-> << >>, nlu |-> NoNlu ]

WithNlu(response, nlu) ==
    [ assistant_text |-> response.assistant_text,
      assistant_intent |-> response.assistant_intent,
      actions |-> response.actions,
      call_state |-> response.call_state,
      nlu |-> nlu ]

----------------------------------------------------------------------------
(* src/api/call_store.py: the call record and the two writes of the store *)

\* no file runtime/calls/<call_id>.json yet
NoRecord ==
    [ status |-> NoStr, turns |-> 0, final_outcome_code |-> NoStr,
      final_end_reason |-> NoStr, last_call_state |-> CallState ]

\* the outcome_code of the first set_outcome action, None without one
_extract_outcome_code(actions) ==
    LET at == {i \in 1..Len(actions) : actions[i].action = "set_outcome"}
    IN IF at = {} THEN NoStr
       ELSE actions[CHOOSE i \in at : \A j \in at : i <= j].outcome_code

\* the reason of the first end_call action, None without one
_extract_end_reason(actions) ==
    LET at == {i \in 1..Len(actions) : actions[i].action = "end_call"}
    IN IF at = {} THEN NoStr
       ELSE actions[CHOOSE i \in at : \A j \in at : i <= j].reason

\* the record holds one row per turn; the model keeps how many (turns)
create_call(assistant_intent, call_state) ==
    [ status |-> "active", turns |-> 1, final_outcome_code |-> NoStr,
      final_end_reason |-> NoStr, last_call_state |-> call_state ]

\* faulty variant of append_turn: the end_reason fallback overwrites a
\* final_outcome_code that is already set, and a turn without end_call clears
\* the final_end_reason
append_turn_refinalizes(rec, turn_event, assistant_intent, actions, call_state) ==
    LET appended == [rec EXCEPT !.turns = @ + 1, !.last_call_state = call_state]
    IN IF call_state.phase = "ended"
       THEN [appended EXCEPT
               !.status = "ended",
               !.final_outcome_code = _extract_outcome_code(actions),
               !.final_end_reason = _extract_end_reason(actions)]
       ELSE appended

append_turn(rec, turn_event, assistant_intent, actions, call_state) ==
    LET appended == [rec EXCEPT !.turns = @ + 1, !.last_call_state = call_state]
        outcome_code == _extract_outcome_code(actions)
        end_reason == IF call_state.end_reason \notin {NoStr, ""} THEN call_state.end_reason
                      ELSE _extract_end_reason(actions)
    IN IF call_state.phase = "ended"
       THEN [appended EXCEPT
               !.status = "ended",
               !.final_outcome_code =
                   IF outcome_code \notin {NoStr, ""} THEN outcome_code
                   ELSE IF end_reason \notin {NoStr, ""} /\ @ \in {NoStr, ""} THEN end_reason
                   ELSE @,
               !.final_end_reason = IF end_reason \notin {NoStr, ""} THEN end_reason ELSE @]
       ELSE appended

\* handle_turn past the ended test: the turn cap, silence, the universal guards
\* and the routing by phase
route_turn(turn_event, call_state, max_total_turns) ==
    LET new_state == [call_state EXCEPT !.turn_count = @ + 1]
        transcript == turn_event.transcript
        nlu == classify_utterance(transcript)
        heard == [new_state EXCEPT
                     !.silence_count = 0,
                     !.last_user_utterance = transcript,
                     !.clarification_attempts = IF ~is_low_confidence_unknown(nlu) THEN 0 ELSE @]
        said == NluOf(nlu.primary_intent, nlu.confidence, nlu.matched_intents)
    IN IF new_state.turn_count >= max_total_turns /\ new_state.phase # "ended"
       THEN WithNlu(_end_with_limit(new_state), NoNlu)
       ELSE IF turn_event.event_type = "silence" \/ transcript = ""
       THEN WithNlu(_handle_silence(new_state), NluOf("silence", 100, {"silence"}))
       ELSE IF matched(nlu, "stop_request")
       THEN WithNlu(_close_call(heard, "bye_cease", "cease_contact"), said)
       ELSE IF matched(nlu, "goodbye")
       THEN WithNlu(_close_call(heard, "bye_user", "user_ended"), said)
       ELSE IF matched(nlu, "human_handoff")
       THEN WithNlu(_escalate_and_end([heard EXCEPT !.escalation_flag = TRUE,
                                                    !.escalation_reason = "user_requested_human"]), said)
       ELSE IF heard.phase = "pre_verification"
       THEN WithNlu(_handle_pre_verification(turn_event, heard, transcript, nlu), said)
       ELSE IF heard.phase = "verification"
       THEN WithNlu(_handle_verification(turn_event, heard, transcript, nlu), said)
       ELSE IF heard.phase = "post_verification"
       THEN WithNlu(_handle_negotiation(turn_event, heard, transcript, nlu), said)
       ELSE WithNlu(_close_call(heard, "bye_default", "closed"), said)

\* faulty variant of handle_turn: the turn is counted before the ended test
handle_turn_counts_first(turn_event, call_state, max_total_turns) ==
    IF call_state.phase = "ended"
    THEN [ assistant_text |-> "already_closed",
           assistant_intent |-> "already_closed",
           actions |-> << >>,
           call_state |-> [call_state EXCEPT !.turn_count = @ + 1],
           nlu |-> NluOf("none", 100, {}) ]
    ELSE route_turn(turn_event, call_state, max_total_turns)

handle_turn(turn_event, call_state, max_total_turns) ==
    IF call_state.phase = "ended"
    THEN [ assistant_text |-> "already_closed",
           assistant_intent |-> "already_closed",
           actions |-> << >>,
           call_state |-> call_state,
           nlu |-> NluOf("none", 100, {}) ]
    ELSE route_turn(turn_event, call_state, max_total_turns)

----------------------------------------------------------------------------
(* Inputs of the model *)

StartNow == Seconds(12 * 3600)
TickSteps == {Seconds(120)}

Workers == {"w1", "w2"}
Accounts == {"acct_1", "acct_2"}

NoFlags == [dnc |-> FALSE, cease_contact |-> FALSE, legal_hold |-> FALSE]

Policy(cap, gap) ==
    [ timezone |-> "UTC",
      allowed_local_time_ranges |-> << Window(8, 0, 20, 0) >>,
      daily_attempt_cap |-> cap,
      min_gap_minutes |-> gap ]

RetryPolicy(max_attempts, base_delay_seconds, max_delay_seconds) ==
    [ max_attempts |-> max_attempts,
      base_delay_seconds |-> base_delay_seconds,
      max_delay_seconds |-> max_delay_seconds ]

Request(trigger, campaign, account, flags, policy, scheduled, priority, retry) ==
    [ trigger_source |-> trigger, campaign_id |-> campaign,
      payload |-> [account_ref |-> account, suppression_flags |-> flags],
      policy |-> policy, scheduled_for_utc |-> scheduled,
      priority |-> priority, retry_policy |-> retry ]

\* the enqueue requests the model draws from: the first is scheduled ahead of
\* the clock, the second carries no scheduled_for_utc and a max_delay_seconds
\* below its base delay, the third has the key of the first with another
\* trigger, payload, policy, priority and retry policy
Requests ==
    { Request("cron", "cmp_1", "acct_1", NoFlags, Policy(1, 0), StartNow + Seconds(120), 100,
              RetryPolicy(2, 120, 200)),
      Request("webhook", "cmp_2", "acct_1", NoFlags, Policy(1, 0), NoTime, 50, RetryPolicy(2, 120, 100)),
      Request("manual", "cmp_1", "acct_1", [NoFlags EXCEPT !.dnc = TRUE], Policy(2, 1),
              StartNow + Seconds(120), 50, RetryPolicy(1, 120, 3600)) }

\* the requests behind the queue the workers run on
WorkerRequests ==
    { Request("cron", "cmp_1", "acct_1", NoFlags, Policy(1, 0), StartNow, 100, RetryPolicy(2, 120, 200)),
      Request("webhook", "cmp_2", "acct_1", NoFlags, Policy(1, 0), NoTime, 50, RetryPolicy(1, 120, 3600)),
      Request("manual", "cmp_3", "acct_1", [NoFlags EXCEPT !.dnc = TRUE], Policy(1, 0), StartNow, 50,
              RetryPolicy(1, 120, 3600)),
      Request("manual", "cmp_4", "acct_2", [NoFlags EXCEPT !.cease_contact = TRUE, !.legal_hold = TRUE],
              Policy(1, 0), StartNow, 100, RetryPolicy(2, 120, 200)) }

LeaseSeconds == {90}
ErrorCodes == {"dial_failed"}
DelayInputs == {0}
CallIds == {"call_1"}

----------------------------------------------------------------------------
(* State after construction: empty stores, idle workers, a fresh CallState *)

NoDecision == PreDialDecision(FALSE, NoStr, FALSE, 0, NoTime, NoTime)

Init ==
    /\ jobs = << >>
    /\ ledger = [a \in Accounts |-> << >>]
    /\ now = StartNow
    /\ ticks = 0
    /\ last = "returned"
    /\ wpc = [w \in Workers |-> "idle"]
    /\ wjob = [w \in Workers |-> 0]
    /\ wsnap = [w \in Workers |-> << >>]
    /\ wleased = [w \in Workers |-> << >>]
    /\ wnow = [w \in Workers |-> NoTime]
    /\ wdec = [w \in Workers |-> NoDecision]
    /\ werr = [w \in Workers |-> NoStr]
    /\ wdone = [w \in Workers |-> FALSE]
    /\ call = CallState
    /\ resp = NoResponse
    /\ record = NoRecord

----------------------------------------------------------------------------
(* The store's operations, each atomic under the store's lock *)

Tick(d) ==
    /\ ticks < MaxTicks
    /\ now' = now + d
    /\ ticks' = ticks + 1
    /\ UNCHANGED <<jobs, ledger, last, workerVars, callVars>>

\* JsonJobStore.enqueue_job; generate_job_id is a uuid4, so the new file may sort
\* before or after the files already in the directory: any unused id
Enqueue(r) ==
    LET new_job == create_job(r.trigger_source, r.campaign_id, r.payload, r.policy,
                              r.scheduled_for_utc, r.priority, r.retry_policy, now)
        existing == _find_by_idempotency_locked(jobs, new_job.idempotency_key)
    IN /\ IF existing # 0
          THEN /\ last' = "existing"
               /\ jobs' = jobs
          ELSE \E id \in JobIds \ DOMAIN jobs :
                  /\ jobs' = Overlay(jobs, (id :> new_job))
                  /\ last' = "created"
       /\ UNCHANGED <<ledger, now, ticks, workerVars, callVars>>

RequeueDueRetries ==
    /\ jobs' = Overlay(jobs, RetryWrites(jobs, now))
    /\ last' = "returned"
    /\ UNCHANGED <<ledger, now, ticks, workerVars, callVars>>

LeaseNextDueJob(worker_id, lease_seconds) ==
    LET plan == lease_next_due_job(jobs, worker_id, lease_seconds, now)
    IN /\ jobs' = Overlay(jobs, plan.writes)
       /\ last' = "returned"
       /\ UNCHANGED <<ledger, now, ticks, workerVars, callVars>>

StoreCall(result) ==
    /\ jobs' = Overlay(jobs, result.writes)
    /\ last' = IF result.ok THEN "returned" ELSE "raised"
    /\ UNCHANGED <<ledger, now, ticks, workerVars, callVars>>

MarkJobStarted(job_id) ==
    StoreCall(mark_job_started(jobs, job_id, now))

DeferLeasedJob(job_id, error_code, delay_seconds) ==
    StoreCall(defer_leased_job(jobs, job_id, error_code, delay_seconds, now))

CancelJob(job_id, reason_code) ==
    StoreCall(cancel_job(jobs, job_id, reason_code))

MarkJobSucceeded(job_id, outcome_code, call_id) ==
    StoreCall(mark_job_succeeded(jobs, job_id, outcome_code, call_id, now))

MarkJobFailed(job_id, error_code, call_id) ==
    StoreCall(mark_job_failed(jobs, job_id, error_code, call_id, now))

Next ==
    \/ \E d \in TickSteps : Tick(d)
    \/ \E r \in Requests : Enqueue(r)
    \/ RequeueDueRetries
    \/ \E w \in {"w1"}, ls \in LeaseSeconds : LeaseNextDueJob(w, ls)
    \/ \E j \in JobIds : MarkJobStarted(j)
    \/ \E j \in JobIds, e \in ErrorCodes, d \in DelayInputs : DeferLeasedJob(j, e, d)
    \/ \E j \in JobIds : CancelJob(j, "operator_cancel")
    \/ \E j \in JobIds, c \in CallIds : MarkJobSucceeded(j, "call_initialized", c)
    \/ \E j \in JobIds, e \in ErrorCodes, c \in CallIds : MarkJobFailed(j, e, c)

Spec == Init /\ [][Next]_vars

----------------------------------------------------------------------------
(* One call: start_call, then handle_turn for every turn event the host sends *)

TurnEvents ==
    {TurnEvent("user_utterance", t) : t \in Transcripts \cup {""}}
        \cup {TurnEvent("silence", ""), TurnEvent("system_event", "yes")}

\* the response as the host receives it; call_state goes to the variable call
Response(r) ==
    [ assistant_text |-> r.assistant_text,
      assistant_intent |-> r.assistant_intent,
      actions |-> r.actions,
      nlu |-> r.nlu ]

StartCall ==
    /\ resp = NoResponse
    /\ LET r == WithNlu(start_call(call), NoNlu)
       IN /\ call' = r.call_state
          /\ resp' = Response(r)
    /\ UNCHANGED <<jobVars, workerVars, record>>

HandleTurn(turn_event) ==
    /\ resp # NoResponse
    /\ LET r == handle_turn(turn_event, call, MaxTotalTurns)
       IN /\ call' = r.call_state
          /\ resp' = Response(r)
    /\ UNCHANGED <<jobVars, workerVars, record>>

NextCall ==
    \/ StartCall
    \/ \E e \in TurnEvents : HandleTurn(e)

SpecCall == Init /\ [][NextCall]_vars

----------------------------------------------------------------------------
(* src/api/server.py: POST /call/start and POST /call/turn.  The handlers are
   coroutines without an await, so each runs to its end on the event loop. *)

ApiStartCall ==
    /\ record = NoRecord
    /\ LET result == WithNlu(start_call(CallState), NoNlu)
       IN /\ record' = create_call(result.assistant_intent, result.call_state)
          /\ call' = result.call_state
          /\ resp' = Response(result)
    /\ UNCHANGED <<jobVars, workerVars>>

\* get_call_state raises FileNotFoundError (404) for a call never started
ApiHandleTurn(turn_event) ==
    /\ record # NoRecord
    /\ record.turns < MaxTurnRows
    /\ LET state == record.last_call_state
           result == handle_turn(turn_event, state, MaxTotalTurns)
       IN /\ record' = append_turn(record, turn_event, result.assistant_intent,
                                   result.actions, result.call_state)
          /\ call' = result.call_state
          /\ resp' = Response(result)
    /\ UNCHANGED <<jobVars, workerVars>>

NextApi ==
    \/ ApiStartCall
    \/ \E e \in TurnEvents : ApiHandleTurn(e)

SpecApi == Init /\ [][NextApi]_vars

----------------------------------------------------------------------------
(* Properties of the store under Spec *)

\* C1: terminal job states are absorbing.  In every step of the store, a job
\* that is persisted in succeeded, dead_letter or canceled keeps its whole
\* record: the operation raised or skipped it.
C1_TerminalAbsorbing ==
    [][\A j \in DOMAIN jobs :
          is_terminal_state(jobs[j].state) => j \in DOMAIN jobs' /\ jobs'[j] = jobs[j]]_vars

\* C1 witness: a store operation has just raised while jobs in succeeded and in
\* dead_letter or canceled are persisted
C1_Witness ==
    /\ last = "raised"
    /\ \E j \in DOMAIN jobs : jobs[j].state = "succeeded"
    /\ \E j \in DOMAIN jobs : jobs[j].state \in {"dead_letter", "canceled"}

\* C3: enqueue is idempotent.  At most one persisted job carries a given
\* idempotency_key; an enqueue whose key is new reports created and persists
\* one job with that key, and an enqueue whose key exists reports the existing
\* job (created = false) and leaves every stored record as it was.
C3_IdempotentEnqueue ==
    /\ [](\A j, k \in DOMAIN jobs :
            jobs[j].idempotency_key = jobs[k].idempotency_key => j = k)
    /\ [][\A r \in Requests : Enqueue(r) =>
            \* the job the request's key already names, 0 when there is none
            IF _find_by_idempotency_locked(jobs,
                   create_job(r.trigger_source, r.campaign_id, r.payload, r.policy,
                              r.scheduled_for_utc, r.priority, r.retry_policy,
                              now).idempotency_key) # 0
            THEN last' = "existing" /\ jobs' = jobs
            ELSE /\ last' = "created"
                 /\ Cardinality(DOMAIN jobs') = Cardinality(DOMAIN jobs) + 1
                 /\ \A j \in DOMAIN jobs : jobs'[j] = jobs[j]]_vars

\* C3 witness: an enqueue has just returned an existing job that is no longer
\* queued, while a second job with another key is persisted
C3_Witness ==
    /\ last = "existing"
    /\ Cardinality(DOMAIN jobs) = 2
    /\ \E j \in DOMAIN jobs : jobs[j].state \in {"running", "succeeded", "canceled"}

\* one store operation may take a job from state s to state t
LegalChange(s, t) ==
    \/ s = t
    \/ \E e \in JobEvent : <<s, e, t>> \in STATE_TRANSITIONS
    \/ /\ s = "running"
       /\ <<s, "call_failed", "failed">> \in STATE_TRANSITIONS
       /\ \/ t = "waiting_retry" /\ <<"failed", "schedule_retry", t>> \in STATE_TRANSITIONS
          \/ t = "dead_letter" /\ <<"failed", "exhaust_retries", t>> \in STATE_TRANSITIONS

\* the states the table reaches from the states in from
RECURSIVE ReachableVia(_)
ReachableVia(from) ==
    LET more == from \cup {tr[3] : tr \in {x \in STATE_TRANSITIONS : x[1] \in from}}
    IN IF more = from THEN from ELSE ReachableVia(more)

\* the directory as lease_next_due_job's first loop has written it, before the
\* selected job is written leased
AfterRequeue == Overlay(jobs, RetryWrites(jobs, now))

\* C10: every change a store operation writes to a persisted job's state is one
\* legal transition or the chain running -> failed -> waiting_retry / dead_letter
\* of mark_failed (lease_next_due_job writes a due retry twice, queued and then
\* leased, and each write is one transition); a new job is persisted queued;
\* every persisted state is reachable from queued via the table; and cancel
\* succeeds from queued, leased, running and waiting_retry.
C10_LegalTransitions ==
    /\ [][/\ \A j \in DOMAIN jobs :
                /\ j \in DOMAIN jobs'
                /\ \/ LegalChange(jobs[j].state, jobs'[j].state)
                   \/ /\ jobs[j].state = "waiting_retry" /\ jobs'[j].state = "leased"
                      /\ LegalChange(jobs[j].state, AfterRequeue[j].state)
                      /\ LegalChange(AfterRequeue[j].state, jobs'[j].state)
          /\ \A j \in DOMAIN jobs' \ DOMAIN jobs : jobs'[j].state = "queued"]_vars
    /\ [](\A j \in DOMAIN jobs :
            /\ jobs[j].state \in ReachableVia({"queued"})
            /\ jobs[j].state \in {"queued", "leased", "running", "waiting_retry"}
                 => LET r == cancel_job(jobs, j, "operator_cancel")
                    IN r.ok /\ r.writes[j].state = "canceled")

\* C10 witness: a job that ran, failed and waits for its retry is persisted next
\* to a job that was canceled, and the last operation returned
C10_Witness ==
    /\ last = "returned"
    /\ \E j \in DOMAIN jobs : jobs[j].state = "waiting_retry" /\ Len(jobs[j].attempts) = 1
    /\ \E j \in DOMAIN jobs : jobs[j].state = "canceled"

----------------------------------------------------------------------------
(* scripts/run_outbound_worker.py: _process_one_job, one worker process per  *)
(* worker_id.  Every process builds its own JsonJobStore, so the store's     *)
(* threading.Lock excludes nobody in another process: lease_next_due_job     *)
(* loads the directory in one step and writes in a later one.                *)

WorkerLeaseSeconds == 90
HandlerDeferSeconds == 120

\* _process_one_job returned; under --once main breaks whether or not work was done
Finished(w) ==
    /\ wpc' = [wpc EXCEPT ![w] = "idle"]
    /\ wdone' = [wdone EXCEPT ![w] = TRUE]
    /\ wjob' = [wjob EXCEPT ![w] = 0]
    /\ wsnap' = [wsnap EXCEPT ![w] = << >>]
    /\ wleased' = [wleased EXCEPT ![w] = << >>]
    /\ wnow' = [wnow EXCEPT ![w] = NoTime]
    /\ wdec' = [wdec EXCEPT ![w] = NoDecision]
    /\ werr' = [werr EXCEPT ![w] = NoStr]

\* an exception reached the except clause of _process_one_job
Caught(w, kind) ==
    /\ wpc' = [wpc EXCEPT ![w] = "handler"]
    /\ werr' = [werr EXCEPT ![w] = kind]
    /\ UNCHANGED <<wjob, wsnap, wleased, wnow, wdec, wdone>>

Goto(w, pc) ==
    /\ wpc' = [wpc EXCEPT ![w] = pc]
    /\ UNCHANGED <<wjob, wsnap, wleased, wnow, wdec, werr, wdone>>

\* lease_next_due_job, first half: now = _utc_now(); jobs = _load_all_locked()
WLeaseLoad(w) ==
    /\ wpc[w] = "idle"
    /\ ~wdone[w]
    /\ wpc' = [wpc EXCEPT ![w] = "lease"]
    /\ wsnap' = [wsnap EXCEPT ![w] = jobs]
    /\ wnow' = [wnow EXCEPT ![w] = now]
    /\ UNCHANGED <<jobVars, wjob, wleased, wdec, werr, wdone, callVars>>

\* lease_next_due_job, second half: requeue, select, lease and write what was loaded
WLeaseCommit(w) ==
    /\ wpc[w] = "lease"
    /\ LET plan == lease_next_due_job(wsnap[w], w, WorkerLeaseSeconds, wnow[w])
       IN /\ jobs' = Overlay(jobs, plan.writes)
          /\ IF plan.ret = 0
             THEN Finished(w)
             ELSE /\ wpc' = [wpc EXCEPT ![w] = "gate"]
                  /\ wjob' = [wjob EXCEPT ![w] = plan.ret]
                  /\ wleased' = [wleased EXCEPT ![w] = plan.writes[plan.ret]]
                  /\ wsnap' = [wsnap EXCEPT ![w] = << >>]
                  /\ UNCHANGED <<wnow, wdec, werr, wdone>>
    /\ UNCHANGED <<ledger, now, ticks, last, callVars>>

WGate(w) ==
    /\ wpc[w] = "gate"
    /\ LET decision == evaluate_pre_dial_gate(wleased[w].payload.account_ref, wleased[w].policy,
                                               wleased[w].payload.suppression_flags, ledger, now)
       IN /\ wdec' = [wdec EXCEPT ![w] = decision]
          /\ wnow' = [wnow EXCEPT ![w] = now]
          /\ wpc' = [wpc EXCEPT ![w] = IF decision.allowed THEN "start" ELSE "blocked_append"]
    /\ UNCHANGED <<jobVars, wjob, wsnap, wleased, werr, wdone, callVars>>

WBlockedAppend(w) ==
    /\ wpc[w] = "blocked_append"
    /\ ledger' = append_event(ledger, wleased[w].payload.account_ref, wdec[w].reason_code,
                               FALSE, wjob[w], NoStr, now)
    /\ Goto(w, "blocked_store")
    /\ UNCHANGED <<jobs, now, ticks, last, callVars>>

WBlockedStore(w) ==
    /\ wpc[w] = "blocked_store"
    /\ LET \* decision.retry_after_seconds or 900
           delay == IF wdec[w].retry_after_seconds \in {NoTime, 0}
                    THEN WindowRetrySeconds ELSE wdec[w].retry_after_seconds
           r == IF wdec[w].retryable
                THEN defer_leased_job(jobs, wjob[w], wdec[w].reason_code, delay, wnow[w])
                ELSE cancel_job(jobs, wjob[w], wdec[w].reason_code)
       IN /\ jobs' = Overlay(jobs, r.writes)
          /\ IF r.ok THEN Finished(w) ELSE Caught(w, "worker_exception:ValueError")
    /\ UNCHANGED <<ledger, now, ticks, last, callVars>>

WStart(w) ==
    /\ wpc[w] = "start"
    /\ LET r == mark_job_started(jobs, wjob[w], wnow[w])
       IN /\ jobs' = Overlay(jobs, r.writes)
          /\ IF r.ok THEN Goto(w, "init_call") ELSE Caught(w, "worker_exception:ValueError")
    /\ UNCHANGED <<ledger, now, ticks, last, callVars>>

\* start_call and call_store.create_call: the call record is written, or the write fails
WInitCall(w) ==
    /\ wpc[w] = "init_call"
    /\ \/ Goto(w, "succeed")
       \/ Caught(w, "worker_exception:OSError")
    /\ UNCHANGED <<jobVars, callVars>>

WSucceed(w) ==
    /\ wpc[w] = "succeed"
    /\ LET r == mark_job_succeeded(jobs, wjob[w], "call_initialized", "call_1", now)
       IN /\ jobs' = Overlay(jobs, r.writes)
          /\ IF r.ok THEN Goto(w, "append_ok") ELSE Caught(w, "worker_exception:ValueError")
    /\ UNCHANGED <<ledger, now, ticks, last, callVars>>

WAppendOk(w) ==
    /\ wpc[w] = "append_ok"
    /\ ledger' = append_event(ledger, wleased[w].payload.account_ref, "call_initialized",
                               TRUE, wjob[w], "call_1", now)
    /\ Finished(w)
    /\ UNCHANGED <<jobs, now, ticks, last, callVars>>

\* faulty variant of WHandlerJob: the except clause leaves the job as it found it
WHandlerLeavesJob(w) ==
    /\ wpc[w] = "handler"
    /\ jobs' = jobs
    /\ Goto(w, "handler_ledger")
    /\ UNCHANGED <<ledger, now, ticks, last, callVars>>

\* except clause, first try block: get_job, then mark_job_failed or defer_leased_job;
\* whatever these raise is swallowed
WHandlerJob(w) ==
    /\ wpc[w] = "handler"
    /\ LET state == IF wjob[w] \in DOMAIN jobs THEN jobs[wjob[w]].state ELSE NoStr
           r == IF state = "running"
                THEN mark_job_failed(jobs, wjob[w], werr[w], NoStr, now)
                ELSE IF state = "leased"
                THEN defer_leased_job(jobs, wjob[w], werr[w], HandlerDeferSeconds, now)
                ELSE [ok |-> TRUE, writes |-> << >>]
       IN jobs' = Overlay(jobs, r.writes)
    /\ Goto(w, "handler_ledger")
    /\ UNCHANGED <<ledger, now, ticks, last, callVars>>

\* except clause, second try block: the non-counting ledger event
WHandlerLedger(w) ==
    /\ wpc[w] = "handler_ledger"
    /\ ledger' = append_event(ledger, wleased[w].payload.account_ref, werr[w],
                               FALSE, wjob[w], NoStr, now)
    /\ Finished(w)
    /\ UNCHANGED <<jobs, now, ticks, last, callVars>>

WorkerStep(w) ==
    \/ WLeaseLoad(w)
    \/ WLeaseCommit(w)
    \/ WGate(w)
    \/ WBlockedAppend(w)
    \/ WBlockedStore(w)
    \/ WStart(w)
    \/ WInitCall(w)
    \/ WSucceed(w)
    \/ WAppendOk(w)
    \/ WHandlerJob(w)
    \/ WHandlerLedger(w)

NextWorkers ==
    \/ \E d \in TickSteps : Tick(d)
    \/ \E w \in Workers : WorkerStep(w)

\* the directory enqueue_job leaves after the requests rs, all made at time t
RECURSIVE Enqueued(_, _)
Enqueued(rs, t) ==
    IF Len(rs) = 0 THEN << >>
    ELSE LET S == Enqueued(SubSeq(rs, 1, Len(rs) - 1), t)
             r == rs[Len(rs)]
             new_job == create_job(r.trigger_source, r.campaign_id, r.payload, r.policy,
                                   r.scheduled_for_utc, r.priority, r.retry_policy, t)
         IN IF _find_by_idempotency_locked(S, new_job.idempotency_key) # 0 THEN S
            ELSE Overlay(S, (Cardinality(DOMAIN S) + 1 :> new_job))

\* the workers start on a queue that two enqueue calls have filled
InitWorkers ==
    /\ \E ra \in WorkerRequests, rb \in WorkerRequests : jobs = Enqueued(<<ra, rb>>, StartNow)
    /\ ledger = [a \in Accounts |-> << >>]
    /\ now = StartNow
    /\ ticks = 0
    /\ last = "returned"
    /\ wpc = [w \in Workers |-> "idle"]
    /\ wjob = [w \in Workers |-> 0]
    /\ wsnap = [w \in Workers |-> << >>]
    /\ wleased = [w \in Workers |-> << >>]
    /\ wnow = [w \in Workers |-> NoTime]
    /\ wdec = [w \in Workers |-> NoDecision]
    /\ werr = [w \in Workers |-> NoStr]
    /\ wdone = [w \in Workers |-> FALSE]
    /\ call = CallState
    /\ resp = NoResponse
    /\ record = NoRecord

SpecWorkers == InitWorkers /\ [][NextWorkers]_vars

----------------------------------------------------------------------------
(* Properties of the worker processes under SpecWorkers *)

\* the stages of _process_one_job in which the worker acts on the lease that
\* lease_next_due_job returned to it
LeaseHeld == {"gate", "blocked_append", "blocked_store", "start", "init_call", "succeed", "handler"}

HoldsLease(w, j) == wjob[w] = j /\ wpc[w] \in LeaseHeld

\* C2: lease exclusivity across worker processes.  No two workers, each with
\* its own store over the same jobs directory, hold at the same time a lease
\* that lease_next_due_job returned for the same job.
C2_LeaseExclusive ==
    \A w1 \in Workers, w2 \in Workers, j \in JobIds :
        HoldsLease(w1, j) /\ HoldsLease(w2, j) => w1 = w2

\* C4: the daily attempt cap is never exceeded.  For every job's account and for
\* every local day (in the job's policy timezone) on which the ledger holds
\* an event of that account, the counted events of that day number at most the
\* policy's daily_attempt_cap.
C4_DailyCapRespected ==
    \A j \in DOMAIN jobs :
        LET a == jobs[j].payload.account_ref
            p == jobs[j].policy
        IN \A i \in 1..Len(ledger[a]) :
              count_attempts_for_local_day(ledger, a, p.timezone,
                  LocalDay(ledger[a][i].recorded_at_utc, p.timezone)) <= p.daily_attempt_cap

Suppressed(job) ==
    \/ job.payload.suppression_flags.dnc
    \/ job.payload.suppression_flags.cease_contact
    \/ job.payload.suppression_flags.legal_hold

\* the blocked_suppression_* code that matches a suppressed payload
SuppressionCode(job) ==
    IF job.payload.suppression_flags.dnc THEN "blocked_suppression_dnc"
    ELSE IF job.payload.suppression_flags.cease_contact THEN "blocked_suppression_cease_contact"
    ELSE "blocked_suppression_legal_hold"

\* the ledger L holds the non-counting event of job j's suppression block
BlockRecorded(L, S, j) ==
    \E i \in 1..Len(L[S[j].payload.account_ref]) :
        LET e == L[S[j].payload.account_ref][i]
        IN e.job_id = j /\ e.decision_code = SuppressionCode(S[j]) /\ ~e.counts_toward_attempt

\* C5: a suppressed account is never dialed by the worker.  A job whose payload
\* has dnc, cease_contact or legal_hold set never enters running, never gets a
\* JobAttempt and never gets a counting ledger event; a worker that leased it
\* never reaches mark_job_started; and when the worker's processing of it ends
\* the job is canceled with the matching blocked_suppression_* code as
\* failure_reason and the ledger holds that decision with
\* counts_toward_attempt = false.
C5_SuppressedNeverDialed ==
    /\ [](\A j \in DOMAIN jobs : Suppressed(jobs[j]) =>
            /\ jobs[j].state \in {"queued", "leased", "canceled"}
            /\ Len(jobs[j].attempts) = 0
            /\ \A i \in 1..Len(ledger[jobs[j].payload.account_ref]) :
                  ledger[jobs[j].payload.account_ref][i].job_id = j
                     => ~ledger[jobs[j].payload.account_ref][i].counts_toward_attempt
            /\ jobs[j].state = "canceled" =>
                  /\ jobs[j].failure_reason = SuppressionCode(jobs[j])
                  /\ BlockRecorded(ledger, jobs, j))
    /\ [](\A w \in Workers : wjob[w] # 0 /\ Suppressed(wleased[w]) =>
            wpc[w] \in {"gate", "blocked_append", "blocked_store", "handler", "handler_ledger"})
    /\ [][\A w \in Workers :
            wjob[w] # 0 /\ Suppressed(wleased[w]) /\ wpc'[w] = "idle" =>
               /\ jobs'[wjob[w]].state = "canceled"
               /\ jobs'[wjob[w]].failure_reason = SuppressionCode(wleased[w])
               /\ BlockRecorded(ledger', jobs', wjob[w])]_vars

\* C5 witness: both workers have ended their run, and a dnc job and a
\* cease_contact job are canceled with their blocks in the ledger
C5_Witness ==
    /\ \A w \in Workers : wdone[w]
    /\ \E j \in DOMAIN jobs :
          /\ jobs[j].payload.suppression_flags.dnc
          /\ jobs[j].state = "canceled" /\ BlockRecorded(ledger, jobs, j)
    /\ \E j \in DOMAIN jobs :
          /\ jobs[j].payload.suppression_flags.cease_contact
          /\ jobs[j].state = "canceled" /\ BlockRecorded(ledger, jobs, j)

----------------------------------------------------------------------------
(* Properties of the dialog engine under SpecCall *)

\* the text that names the brand and the debt
NamesBrandOrDebt(text) == text = "disclosure"

\* C6: disclosure only after verification.  disclosure_delivered implies
\* right_party_verified; the deliver_disclosure response is emitted only by
\* the verification-phase turn on which right_party_verified becomes true;
\* it is the only response naming the brand or the debt; and no response
\* whose resulting phase is pre_verification or verification is that
\* response or speaks of the balance.
C6_DisclosureAfterVerification ==
    /\ [](call.disclosure_delivered => call.right_party_verified)
    /\ [](NamesBrandOrDebt(resp.assistant_text) => resp.assistant_intent = "deliver_disclosure")
    /\ [](call.phase \in {"pre_verification", "verification"} =>
            /\ resp.assistant_intent # "deliver_disclosure"
            /\ ~NamesBrandOrDebt(resp.assistant_text)
            \* nor one of the texts that speak of the balance, an amount or a date
            /\ resp.assistant_text \notin
                  { "disclosure", "pay_today", "find_day", "partial_offer", "partial_25th",
                    "ask_date", "ask_exact_date", "month_policy", "confirm_date",
                    "date_example", "wait_calendar", "clarify_date", "ptp_noted" })
    /\ [][resp'.assistant_intent = "deliver_disclosure" =>
            /\ call.phase = "verification" /\ ~call.right_party_verified
            /\ call'.phase = "post_verification" /\ call'.right_party_verified
            /\ call'.disclosure_delivered]_vars

\* C6 witness: the disclosure has just been delivered, after two ZIP codes
\* that did not match
C6_Witness ==
    /\ resp.assistant_intent = "deliver_disclosure"
    /\ call.disclosure_delivered /\ call.right_party_verified
    /\ call.verification_attempts = 2

HasAction(response, name) ==
    \E i \in 1..Len(response.actions) : response.actions[i].action = name

\* C7: a promise-to-pay is created only after verification.  Every turn whose
\* response carries create_promise_to_pay, or that sets
\* promise_to_pay.confirmed, was handled with input phase post_verification
\* and right_party_verified = true.
C7_PtpOnlyPostVerification ==
    [][HasAction(resp', "create_promise_to_pay")
          \/ (call'.promise_to_pay.confirmed /\ ~call.promise_to_pay.confirmed)
       => call.phase = "post_verification" /\ call.right_party_verified]_vars

\* C7 witness: the turn that confirmed a proposed weekday has created the promise
C7_Witness ==
    /\ HasAction(resp, "create_promise_to_pay")
    /\ call.promise_to_pay.confirmed
    /\ call.promise_to_pay.date = <<2026, 2, 13>>

\* C8: in every reachable call state, promise_to_pay.confirmed implies that
\* the phase is ended, end_reason is ptp_set and the promise's date and amount
\* are set.
C8_ConfirmedPtpEndsCall ==
    call.promise_to_pay.confirmed =>
        /\ call.phase = "ended"
        /\ call.end_reason = "ptp_set"
        /\ call.promise_to_pay.date # NoDate
        /\ call.promise_to_pay.amount # NoStr

\* C8 witness: a promise for a date the user named is confirmed
C8_Witness ==
    /\ call.promise_to_pay.confirmed
    /\ call.promise_to_pay.date = <<2026, 2, 20>>
    /\ call.promise_to_pay.amount = AmountDue

\* C9: an ended call is frozen.  A turn on a call whose phase is ended leaves
\* every field of the call state as it was and answers already_closed with no
\* actions, whatever the turn event.
C9_EndedCallFrozen ==
    [][call.phase = "ended" /\ resp # NoResponse =>
          /\ call' = call
          /\ resp'.assistant_intent = "already_closed"
          /\ resp'.actions = << >>]_vars

\* C9 witness: a call that ended with a confirmed promise has answered a
\* further turn
C9_Witness ==
    /\ call.phase = "ended"
    /\ call.promise_to_pay.confirmed
    /\ resp.assistant_intent = "already_closed"

----------------------------------------------------------------------------
(* Further properties of the store under Spec *)

\* C11: state conflicts do not mutate.  mark_job_started or defer_leased_job
\* on a persisted job that is not leased, mark_job_succeeded or
\* mark_job_failed on one that is not running, and cancel_job on a terminal
\* one, raise and leave every persisted record as it was; and whenever a store
\* operation raises, the directory is unchanged.
C11_ConflictNoMutation ==
    /\ [][last' = "raised" => jobs' = jobs]_vars
    /\ [][\A j \in DOMAIN jobs :
            /\ (jobs[j].state # "leased" /\ MarkJobStarted(j))
                  => last' = "raised" /\ jobs' = jobs
            /\ (jobs[j].state # "leased"
                   /\ \E e \in ErrorCodes, d \in DelayInputs : DeferLeasedJob(j, e, d))
                  => last' = "raised" /\ jobs' = jobs
            /\ (jobs[j].state # "running"
                   /\ \E c \in CallIds : MarkJobSucceeded(j, "call_initialized", c))
                  => last' = "raised" /\ jobs' = jobs
            /\ (jobs[j].state # "running"
                   /\ \E e \in ErrorCodes, c \in CallIds : MarkJobFailed(j, e, c))
                  => last' = "raised" /\ jobs' = jobs
            /\ (is_terminal_state(jobs[j].state) /\ CancelJob(j, "operator_cancel"))
                  => last' = "raised" /\ jobs' = jobs]_vars

\* C11 witness: an operation has just raised on a directory that holds a job
\* waiting for its retry after one attempt and a leased job
C11_Witness ==
    /\ last = "raised"
    /\ \E j \in DOMAIN jobs : jobs[j].state = "waiting_retry" /\ Len(jobs[j].attempts) = 1
    /\ \E j \in DOMAIN jobs : jobs[j].state = "leased"

DueRetry(j) ==
    /\ jobs[j].state = "waiting_retry"
    /\ jobs[j].next_attempt_at_utc # NoTime
    /\ jobs[j].next_attempt_at_utc <= now

\* a persisted queued job whose next_attempt_at_utc has come
DueQueued(j) ==
    /\ jobs[j].state = "queued"
    /\ jobs[j].next_attempt_at_utc # NoTime
    /\ jobs[j].next_attempt_at_utc <= now

\* the record of job j after its promotion at the current time
Promoted(j) == [jobs[j] EXCEPT !.state = "queued", !.next_attempt_at_utc = now]

\* C13: matured retries are never missed and never early.
\* requeue_due_retries writes a waiting_retry job queued exactly when its
\* next_attempt_at_utc <= now and changes nothing else; lease_next_due_job
\* promotes the same jobs before it selects, so a due retry ends the call
\* queued or leased and a retry that is not due keeps its record; and
\* lease_next_due_job returns None exactly when no job is queued-and-due or
\* waiting_retry-and-due.
C13_MaturedRetries ==
    /\ [][RequeueDueRetries =>
            \A j \in DOMAIN jobs :
               jobs'[j] = IF DueRetry(j) THEN Promoted(j) ELSE jobs[j]]_vars
    /\ [][\A ls \in LeaseSeconds : LeaseNextDueJob("w1", ls) =>
            /\ \A j \in DOMAIN jobs :
                  /\ DueRetry(j) =>
                        \/ jobs'[j] = Promoted(j)
                        \/ jobs'[j] = [Promoted(j) EXCEPT !.state = "leased",
                                                          !.lease_owner = "w1",
                                                          !.lease_expires_at_utc = now + Seconds(ls)]
                  /\ (jobs[j].state = "waiting_retry" /\ ~DueRetry(j)) => jobs'[j] = jobs[j]
            /\ (\E j \in DOMAIN jobs : DueRetry(j) \/ DueQueued(j))
                  => \E j \in DOMAIN jobs : jobs[j].state # "leased" /\ jobs'[j].state = "leased"]_vars
    /\ [](\A ls \in LeaseSeconds :
            lease_next_due_job(jobs, "w1", ls, now).ret = 0
               <=> ~\E j \in DOMAIN jobs : DueRetry(j) \/ DueQueued(j))

\* C13 witness: a retry that matured has been promoted and leased at the
\* current time, while another retry that is not due still waits
C13_Witness ==
    /\ \E j \in DOMAIN jobs :
          /\ jobs[j].state = "leased"
          /\ Len(jobs[j].attempts) = 1
          /\ jobs[j].next_attempt_at_utc = now
          /\ jobs[j].lease_expires_at_utc = now + Seconds(90)
    /\ \E j \in DOMAIN jobs :
          jobs[j].state = "waiting_retry" /\ jobs[j].next_attempt_at_utc > now

\* C14: lease selection order.  A call of lease_next_due_job changes at most
\* one job to leased; that job was queued and due, or a due retry promoted in
\* the same call; no due job has a smaller (priority, created_at_utc); and its
\* record is written with lease_owner = worker_id and lease_expires_at_utc =
\* now + lease_seconds.
C14_LeaseSelectionOrder ==
    [][\A ls \in LeaseSeconds : LeaseNextDueJob("w1", ls) =>
          LET newly == {j \in DOMAIN jobs : jobs[j].state # "leased" /\ jobs'[j].state = "leased"}
          IN /\ Cardinality(newly) <= 1
             /\ \A j \in newly :
                   /\ DueQueued(j) \/ DueRetry(j)
                   /\ jobs'[j] = [(IF DueRetry(j) THEN Promoted(j) ELSE jobs[j]) EXCEPT
                                       !.state = "leased",
                                       !.lease_owner = "w1",
                                       !.lease_expires_at_utc = now + Seconds(ls)]
                   /\ \A k \in DOMAIN jobs :
                         (DueQueued(k) \/ DueRetry(k)) =>
                             \/ jobs[j].priority < jobs[k].priority
                             \/ /\ jobs[j].priority = jobs[k].priority
                                /\ jobs[j].created_at_utc <= jobs[k].created_at_utc]_vars

\* C14 witness: the job in the second file is leased while the job in the first
\* file, of the same priority but created later, is queued and due
C14_Witness ==
    /\ DOMAIN jobs = {1, 2}
    /\ jobs[2].state = "leased" /\ jobs[2].lease_owner = "w1"
    /\ DueQueued(1)
    /\ jobs[1].priority = jobs[2].priority
    /\ jobs[1].created_at_utc > jobs[2].created_at_utc

\* C15: defer_leased_job consumes no retry budget.  On a leased job it returns
\* and writes the job with state waiting_retry, failure_reason = error_code,
\* next_attempt_at_utc = now + max(1, delay_seconds) and the lease cleared,
\* every other field, the attempts among them, and every other job as before;
\* and a job without attempts is never dead-lettered, however often it was
\* deferred.
C15_DeferKeepsBudget ==
    /\ [][\A j \in DOMAIN jobs : \A e \in ErrorCodes, d \in DelayInputs :
            (jobs[j].state = "leased" /\ DeferLeasedJob(j, e, d)) =>
               /\ last' = "returned"
               /\ jobs' = [jobs EXCEPT ![j] =
                     [@ EXCEPT !.state = "waiting_retry",
                               !.failure_reason = e,
                               !.next_attempt_at_utc = now + Seconds(IF d >= 1 THEN d ELSE 1),
                               !.lease_owner = NoStr,
                               !.lease_expires_at_utc = NoTime]]]_vars
    /\ [](\A j \in DOMAIN jobs : jobs[j].state = "leased" =>
            \A d \in {0, 1, 60, 120, 900} :
               LET r == defer_leased_job(jobs, j, "blocked_policy_min_gap", d, now)
               IN /\ r.ok
                  /\ DOMAIN r.writes = {j}
                  /\ r.writes[j].state = "waiting_retry"
                  /\ r.writes[j].next_attempt_at_utc = now + Seconds(IF d >= 1 THEN d ELSE 1)
                  /\ r.writes[j].attempts = jobs[j].attempts)
    /\ [](\A j \in DOMAIN jobs :
            Len(jobs[j].attempts) = 0 =>
               jobs[j].state \in {"queued", "leased", "waiting_retry", "canceled"})

\* C15 witness: a job created at the start of the run has been deferred after
\* the clock advanced and waits for its retry with no attempt recorded
C15_Witness ==
    \E j \in DOMAIN jobs :
        /\ jobs[j].state = "waiting_retry"
        /\ jobs[j].attempts = << >>
        /\ jobs[j].failure_reason = "dial_failed"
        /\ jobs[j].created_at_utc = StartNow
        /\ jobs[j].next_attempt_at_utc = StartNow + Seconds(121)

----------------------------------------------------------------------------
(* The workers next to the other actors on the same directories: the API's  *)
(* POST /jobs/{job_id}/start (src/api/server.py), an operator's cancel_job, *)
(* and a ledger file that cannot be read when the gate asks for it.         *)

\* api_start_job_attempt: job_store.mark_job_started(job_id) from the server
\* process; a call that raises is answered 404 / 409 and changes nothing.
\* The model lets the other actors act once per run (last records it).
ApiStartJobAttempt(job_id) ==
    /\ last = "returned"
    /\ LET r == mark_job_started(jobs, job_id, now)
       IN r.ok /\ jobs' = Overlay(jobs, r.writes)
    /\ last' = "api_start"
    /\ UNCHANGED <<ledger, now, ticks, workerVars, callVars>>

\* JsonJobStore.cancel_job called by another process on the directory
OperatorCancelJob(job_id) ==
    /\ last = "returned"
    /\ LET r == cancel_job(jobs, job_id, "operator_cancel")
       IN r.ok /\ jobs' = Overlay(jobs, r.writes)
    /\ last' = "operator_cancel"
    /\ UNCHANGED <<ledger, now, ticks, workerVars, callVars>>

\* evaluate_pre_dial_gate raises: the suppression and window checks have passed
\* and count_attempts_for_local_day fails to open the account's ledger file
WGateRaises(w) ==
    /\ wpc[w] = "gate"
    /\ ~wleased[w].payload.suppression_flags.dnc
    /\ ~wleased[w].payload.suppression_flags.cease_contact
    /\ ~wleased[w].payload.suppression_flags.legal_hold
    /\ _is_local_time_allowed(wleased[w].policy, now)
    /\ wpc' = [wpc EXCEPT ![w] = "handler"]
    /\ werr' = [werr EXCEPT ![w] = "worker_exception:OSError"]
    /\ wnow' = [wnow EXCEPT ![w] = now]
    /\ UNCHANGED <<jobVars, wjob, wsnap, wleased, wdec, wdone, callVars>>

NextOps ==
    \/ \E d \in TickSteps : Tick(d)
    \/ \E w \in Workers : WorkerStep(w)
    \/ \E w \in Workers : WGateRaises(w)
    \/ \E j \in JobIds : ApiStartJobAttempt(j)
    \/ \E j \in JobIds : OperatorCancelJob(j)

SpecOps == InitWorkers /\ [][NextOps]_vars

----------------------------------------------------------------------------
(* Properties of the workers under SpecOps *)

\* C16: a worker never mutates a job that changed under it.  When the
\* persisted record of the job a worker leased is neither the record its lease
\* returned nor that record as the worker itself started it, the worker's
\* next store call on the job (defer_leased_job or cancel_job after the gate,
\* mark_job_started, mark_job_succeeded, the exception handler's
\* mark_job_failed or defer_leased_job) leaves the record as it is.
C16_NoMutationOfChangedJob ==
    [][\A w \in Workers :
          (/\ wjob[w] # 0
           /\ wpc[w] \in {"blocked_store", "start", "succeed", "handler"}
           /\ wpc'[w] # wpc[w]
           \* the record is none of those the worker itself gave the job: the
           \* record its lease returned, and that record as its own
           \* mark_job_started wrote it
           /\ jobs[wjob[w]] # wleased[w]
           /\ ~(/\ wnow[w] # NoTime
                /\ start_job_attempt(wleased[w], wnow[w]).ok
                /\ jobs[wjob[w]] = start_job_attempt(wleased[w], wnow[w]).job))
          => jobs'[wjob[w]] = jobs[wjob[w]]]_vars

----------------------------------------------------------------------------
(* The pre-dial gate on its own: one queued job whose payload and policy    *)
(* snapshot are drawn from the inputs below, a ledger drawn from            *)
(* GateLedgers, a clock drawn from GateTimes, and one evaluation of         *)
(* evaluate_pre_dial_gate for the job, as _process_one_job calls it.        *)

GateDay == 3 * Seconds(DaySeconds)

HM(h, m) == GateDay + Seconds(h * 3600 + m * 60)

\* the ledger another account always has: one counted attempt of this morning
OtherLedger ==
    append_event([a \in Accounts |-> << >>], "acct_2", "call_initialized", TRUE, 2, "call_9", HM(4, 55))

\* ledgers of acct_1: empty; one counted attempt at 03:00 UTC (21:00 of the day
\* before in Chicago); that attempt and a gate block recorded after it; a
\* counted attempt of yesterday 23:00 UTC; one counted attempt at 04:50; two
\* counted attempts written in the
\* order 04:50, 03:00 (the later one first in the file)
GateLedgers ==
    LET c(L, t) == append_event(L, "acct_1", "call_initialized", TRUE, 1, "call_1", t)
        b(L, t) == append_event(L, "acct_1", "blocked_policy_min_gap", FALSE, 1, NoStr, t)
    IN { OtherLedger,
         c(OtherLedger, HM(3, 0)),
         b(c(OtherLedger, HM(3, 0)), HM(4, 0)),
         c(OtherLedger, HM(0, 0) - Seconds(3600)),
         c(OtherLedger, HM(4, 50)),
         c(c(OtherLedger, HM(4, 50)), HM(3, 0)) }

InitGate ==
    /\ \E flags \in [dnc : BOOLEAN, cease_contact : BOOLEAN, legal_hold : BOOLEAN],
          policy \in [ timezone : {"UTC", "America/Chicago"},
                       allowed_local_time_ranges :
                           { << >>,
                             << Window(22, 0, 6, 0) >>,
                             << Window(8, 0, 20, 0) >>,
                             << MalformedWindow >>,
                             << MalformedWindow, Window(22, 0, 6, 0) >>,
                             << Window(8, 0, 20, 0), Window(22, 0, 6, 0) >> },
                       daily_attempt_cap : {0, 1, 2},
                       min_gap_minutes : {0, 10, 30} ] :
          jobs = (1 :> create_job("manual", "cmp_1",
                                  [account_ref |-> "acct_1", suppression_flags |-> flags],
                                  policy, NoTime, 100, RetryPolicy(1, 120, 3600), GateDay))
    /\ ledger \in GateLedgers
    \* 06:00:59 is the last second of minute 06:00; 05:00:40 is 10 minutes 40
    \* seconds after an attempt of 04:50
    /\ now \in { HM(5, 0), HM(5, 0) + Seconds(40), HM(5, 30), HM(6, 0), HM(6, 0) + Seconds(59),
                 HM(6, 1), HM(7, 59), HM(8, 0), HM(12, 0), HM(12, 1), HM(20, 0), HM(20, 1),
                 HM(21, 59), HM(22, 0), HM(23, 30) }
    /\ ticks = 0
    /\ last = "returned"
    /\ wpc = [w \in Workers |-> "idle"]
    /\ wjob = [w \in Workers |-> 0]
    /\ wsnap = [w \in Workers |-> << >>]
    /\ wleased = [w \in Workers |-> << >>]
    /\ wnow = [w \in Workers |-> NoTime]
    /\ wdec = [w \in Workers |-> NoDecision]
    /\ werr = [w \in Workers |-> NoStr]
    /\ wdone = [w \in Workers |-> FALSE]
    /\ call = CallState
    /\ resp = NoResponse
    /\ record = NoRecord

\* decision = evaluate_pre_dial_gate(account_ref=job.payload.account_ref,
\*     policy=job.policy, suppression_flags=job.payload.suppression_flags, ...)
EvaluateGate(w, job_id) ==
    /\ last = "returned"
    /\ wdec' = [wdec EXCEPT ![w] =
                  evaluate_pre_dial_gate(jobs[job_id].payload.account_ref, jobs[job_id].policy,
                                         jobs[job_id].payload.suppression_flags, ledger, now)]
    /\ wjob' = [wjob EXCEPT ![w] = job_id]
    /\ last' = "gate"
    /\ UNCHANGED <<jobs, ledger, now, ticks, wpc, wsnap, wleased, wnow, werr, wdone, callVars>>

NextGate == EvaluateGate("w1", 1)

SpecGate == InitGate /\ [][NextGate]_vars

----------------------------------------------------------------------------
(* Properties of the gate under SpecGate *)

\* C18: gate precedence.  For every combination of suppression flags, local
\* time, ledger content and policy, the decision carries the reason code of
\* the first failing check in the order dnc, cease_contact, legal_hold, call
\* window, daily attempt cap, min gap; a suppression verdict has
\* retryable = false, a policy verdict has retryable = true and a
\* retry_after_seconds; the decision is allowed, with reason_code "allowed",
\* if and only if no check fails.
C18_GatePrecedence ==
    last = "gate" =>
      LET d == wdec["w1"]
          job == jobs[1]
          flags == job.payload.suppression_flags
          policy == job.policy
          events == ledger[job.payload.account_ref]
          counted == {i \in 1..Len(events) : events[i].counts_toward_attempt}
          today == {i \in counted : LocalDay(events[i].recorded_at_utc, policy.timezone)
                                       = LocalDay(now, policy.timezone)}
          fails == [ dnc |-> flags.dnc,
                     cease_contact |-> flags.cease_contact,
                     legal_hold |-> flags.legal_hold,
                     call_window |-> ~_is_local_time_allowed(policy, now),
                     daily_attempt_cap |-> Cardinality(today) >= policy.daily_attempt_cap,
                     min_gap |-> \E i \in counted :
                                    now - events[i].recorded_at_utc < Seconds(policy.min_gap_minutes * 60) ]
          order == <<"dnc", "cease_contact", "legal_hold", "call_window", "daily_attempt_cap", "min_gap">>
          reason == <<"blocked_suppression_dnc", "blocked_suppression_cease_contact",
                      "blocked_suppression_legal_hold", "blocked_policy_outside_call_window",
                      "blocked_policy_daily_attempt_cap", "blocked_policy_min_gap">>
          failing == {k \in 1..6 : fails[order[k]]}
      IN /\ failing = {} => d.allowed /\ d.reason_code = "allowed"
         /\ failing # {} =>
               LET first == CHOOSE k \in failing : \A m \in failing : k <= m
               IN /\ ~d.allowed
                  /\ d.reason_code = reason[first]
                  /\ first <= 3 => ~d.retryable
                  /\ first >= 4 => d.retryable /\ d.retry_after_seconds # NoTime
                                               /\ d.retry_after_seconds > 0
         /\ d.allowed <=> d.reason_code = "allowed"

\* C18 witness: no suppression flag, no window configured, two counted attempts
\* today against a cap of 1, the later one ten minutes ago against a gap of 30
\* minutes: the gate has answered with the cap, retry at the next midnight
C18_Witness ==
    /\ last = "gate"
    /\ jobs[1].payload.suppression_flags = NoFlags
    /\ jobs[1].policy = [timezone |-> "UTC", allowed_local_time_ranges |-> << >>,
                         daily_attempt_cap |-> 1, min_gap_minutes |-> 30]
    /\ now = HM(5, 0)
    /\ Len(ledger["acct_1"]) = 2
    /\ wdec["w1"] = PreDialDecision(FALSE, "blocked_policy_daily_attempt_cap", TRUE, 2, 19 * 3600, NoTime)

\* C19: for every gate evaluation, the returned attempts_today equals the
\* number of ledger events of the job's account with counts_toward_attempt =
\* true whose recorded_at_utc falls on the current local day in the policy
\* timezone.
C19_AttemptsTodayIsCount ==
    last = "gate" =>
      LET policy == jobs[1].policy
          events == ledger[jobs[1].payload.account_ref]
      IN wdec["w1"].attempts_today =
            Cardinality({i \in 1..Len(events) :
                            /\ events[i].counts_toward_attempt
                            /\ LocalDay(events[i].recorded_at_utc, policy.timezone)
                                  = LocalDay(now, policy.timezone)})

\* C20: call-window membership at minute granularity.  With m the local
\* minute of the day, a window start-end admits m iff start <= m <= end when
\* start <= end, and iff m >= start or m <= end when start > end;
\* _is_local_time_allowed is false exactly when the window list is not empty
\* and no window admits m, and the gate's window check (reached when no
\* suppression flag is set) then blocks with blocked_policy_outside_call_window
\* and retry_after_seconds = 900, and only then.  "22:00-06:00" admits 23:30,
\* 05:00 and 06:00 (to its last second) and rejects 06:01, 12:00 and 21:59;
\* "08:00-20:00" admits 08:00 and 20:00 and rejects 07:59 and 20:01.
C20_CallWindowMembership ==
    last = "gate" =>
      LET d == wdec["w1"]
          flags == jobs[1].payload.suppression_flags
          policy == jobs[1].policy
          windows == policy.allowed_local_time_ranges
          offset == IF policy.timezone = "America/Chicago" THEN 0 - 6 * 3600 ELSE 0
          second_of_day == ((now \div TicksPerSecond) + offset) % 86400
          m == (second_of_day \div 3600) * 60 + (second_of_day % 3600) \div 60
          admits(w) ==
              LET start == w.start_h * 60 + w.start_m
                  end == w.end_h * 60 + w.end_m
              IN /\ w.wellformed
                 /\ IF start <= end THEN start <= m /\ m <= end ELSE m >= start \/ m <= end
          outside == Len(windows) > 0 /\ \A i \in 1..Len(windows) : ~admits(windows[i])
          window_block == d.reason_code = "blocked_policy_outside_call_window"
      IN /\ _is_local_time_allowed(policy, now) <=> ~outside
         /\ window_block => outside /\ ~d.allowed /\ d.retryable /\ d.retry_after_seconds = 900
         /\ (outside /\ flags = NoFlags) => window_block
         /\ (windows = << Window(22, 0, 6, 0) >> /\ policy.timezone = "UTC") =>
               /\ now \in {HM(23, 30), HM(5, 0), HM(6, 0), HM(6, 0) + Seconds(59), HM(22, 0), HM(5, 30)} => ~outside
               /\ now \in {HM(6, 1), HM(12, 0), HM(12, 1), HM(21, 59)} => outside
         /\ (windows = << Window(8, 0, 20, 0) >> /\ policy.timezone = "UTC") =>
               /\ now \in {HM(8, 0), HM(12, 0), HM(20, 0)} => ~outside
               /\ now \in {HM(7, 59), HM(20, 1), HM(23, 30)} => outside

\* C20 witness: the window 22:00-06:00 in America/Chicago at 12:01 UTC, which is
\* 06:01 local: the gate has blocked the dial for 900 seconds
C20_Witness ==
    /\ last = "gate"
    /\ jobs[1].payload.suppression_flags = NoFlags
    /\ jobs[1].policy.timezone = "America/Chicago"
    /\ jobs[1].policy.allowed_local_time_ranges = << Window(22, 0, 6, 0) >>
    /\ now = HM(12, 1)
    /\ wdec["w1"] = PreDialDecision(FALSE, "blocked_policy_outside_call_window", TRUE, 0, 900, NoTime)

----------------------------------------------------------------------------
(* A worker that keeps polling (no --once) around a local midnight: one job *)
(* of an account that has used its daily cap, a clock that moves between    *)
(* instants near that midnight, and the loop of main.                       *)

\* the local midnight that ends day 3 in the zone, as a UTC timestamp
CapMidnight(timezone_name) == GateDay + Seconds(DaySeconds) - Seconds(UtcOffset(timezone_name))

\* n counted attempts of acct_1 on the local day that ends at the midnight,
\* three and two hours before it
RECURSIVE CapLedger(_, _)
CapLedger(timezone_name, n) ==
    IF n = 0 THEN [a \in Accounts |-> << >>]
    ELSE append_event(CapLedger(timezone_name, n - 1), "acct_1", "call_initialized", TRUE, 2, "call_9",
                      CapMidnight(timezone_name) - Seconds((4 - n) * 3600))

InitCap ==
    /\ \E policy \in [ timezone : {"UTC", "America/Chicago"},
                        allowed_local_time_ranges : { << >> },
                        daily_attempt_cap : {1, 2},
                        min_gap_minutes : {0} ] :
          /\ jobs = (1 :> create_job("manual", "cmp_1",
                                     [account_ref |-> "acct_1", suppression_flags |-> NoFlags],
                                     policy, NoTime, 100, RetryPolicy(2, 120, 3600),
                                     CapMidnight(policy.timezone) - Seconds(3600)))
          /\ \E n \in {policy.daily_attempt_cap - 1, policy.daily_attempt_cap} :
                ledger = CapLedger(policy.timezone, n)
          /\ now = CapMidnight(policy.timezone) - (Seconds(90) + 1)
    /\ ticks = 0
    /\ last = "returned"
    /\ wpc = [w \in Workers |-> "idle"]
    /\ wjob = [w \in Workers |-> 0]
    /\ wsnap = [w \in Workers |-> << >>]
    /\ wleased = [w \in Workers |-> << >>]
    /\ wnow = [w \in Workers |-> NoTime]
    /\ wdec = [w \in Workers |-> NoDecision]
    /\ werr = [w \in Workers |-> NoStr]
    /\ wdone = [w \in Workers |-> FALSE]
    /\ call = CallState
    /\ resp = NoResponse
    /\ record = NoRecord

\* the clock moves on to a later instant around the midnight; the offsets are
\* in ticks: 90.5 s, 90 s, 30.5 s, 30 s, 1 s and 0.5 s before it, the midnight
\* itself, and instants up to 60 s after it
CapTick ==
    /\ \E d \in { 0 - (Seconds(90) + 1), 0 - Seconds(90), 0 - (Seconds(30) + 1), 0 - Seconds(30),
                  0 - Seconds(1), 0 - 1, 0, 1, Seconds(30) - 1, Seconds(30),
                  Seconds(59), Seconds(60) - 1, Seconds(60) } :
          LET t == CapMidnight(jobs[1].policy.timezone) + d
          IN t > now /\ now' = t
    /\ UNCHANGED <<jobs, ledger, ticks, last, workerVars, callVars>>

\* main without --once: after _process_one_job returns, the loop calls it again
\* (at once after work, after time.sleep(poll_seconds) otherwise)
WPollAgain(w) ==
    /\ wpc[w] = "idle"
    /\ wdone[w]
    /\ wdone' = [wdone EXCEPT ![w] = FALSE]
    /\ UNCHANGED <<jobVars, wpc, wjob, wsnap, wleased, wnow, wdec, werr, callVars>>

NextCap ==
    \/ CapTick
    \/ WorkerStep("w1")
    \/ WPollAgain("w1")

SpecCap == InitCap /\ [][NextCap]_vars

----------------------------------------------------------------------------
(* Properties of the daily-cap deferral under SpecCap *)

\* C21: daily-cap deferral lasts until the next local day.  When the gate
\* blocks on the daily cap at time t it returns retry_after_seconds =
\* max(60, seconds from t to the next local midnight in the policy timezone), in
\* whole seconds; the worker defers the job to waiting_retry with
\* next_attempt_at_utc = t + retry_after_seconds; the job is not promoted
\* before that instant; the first lease call at or after it promotes it; and
\* a gate evaluation of the promoted job no longer counts the attempts of the
\* day of t.
C21_DailyCapDeferral ==
    /\ [][(wpc["w1"] = "gate" /\ wpc'["w1"] # "gate"
             /\ wdec'["w1"].reason_code = "blocked_policy_daily_attempt_cap") =>
            LET ra == wdec'["w1"].retry_after_seconds
                midnight == CapMidnight(jobs[1].policy.timezone)
                left == IF now < midnight THEN midnight - now
                        ELSE midnight + Seconds(DaySeconds) - now
            IN /\ wdec'["w1"].retryable
               /\ ra >= 60
               /\ left <= Seconds(60) => ra = 60
               /\ left >= Seconds(60) => Seconds(ra) <= left /\ left < Seconds(ra + 1)]_vars
    /\ [][(wpc["w1"] = "blocked_store" /\ wpc'["w1"] # "blocked_store"
             /\ wdec["w1"].reason_code = "blocked_policy_daily_attempt_cap") =>
            /\ jobs'[1].state = "waiting_retry"
            /\ jobs'[1].attempts = jobs[1].attempts
            /\ jobs'[1].next_attempt_at_utc = wnow["w1"] + Seconds(wdec["w1"].retry_after_seconds)]_vars
    /\ [][(jobs[1].state = "waiting_retry" /\ jobs'[1].state # "waiting_retry") =>
            /\ now >= jobs[1].next_attempt_at_utc
            /\ wnow["w1"] >= jobs[1].next_attempt_at_utc]_vars
    /\ [][(wpc["w1"] = "lease" /\ wpc'["w1"] # "lease" /\ jobs[1].state = "waiting_retry"
             /\ wnow["w1"] >= jobs[1].next_attempt_at_utc) =>
            jobs'[1].state = "leased" /\ wjob'["w1"] = 1]_vars
    /\ [][(wpc["w1"] = "gate" /\ wpc'["w1"] # "gate"
             /\ wleased["w1"].failure_reason = "blocked_policy_daily_attempt_cap") =>
            /\ wdec'["w1"].attempts_today = 0
            /\ wdec'["w1"].reason_code # "blocked_policy_daily_attempt_cap"]_vars

----------------------------------------------------------------------------
(* Further properties of the gate under SpecGate *)

\* C22: min-gap retry delay.  When the gate blocks on min gap,
\* retry_after_seconds equals 60 x ceil(min_gap_minutes - elapsed minutes since
\* the last counted attempt) and min_gap_blocked_minutes_remaining is that
\* number of minutes; retry_after_seconds is not shorter than the time still
\* missing to the gap, and an evaluation at now + retry_after_seconds with the
\* same ledger is not blocked by min gap again.
C22_MinGapRetryDelay ==
    (last = "gate" /\ wdec["w1"].reason_code = "blocked_policy_min_gap") =>
      LET d == wdec["w1"]
          job == jobs[1]
          events == ledger[job.payload.account_ref]
          counted == {events[i].recorded_at_utc : i \in {k \in 1..Len(events) : events[k].counts_toward_attempt}}
          last_counted == CHOOSE t \in counted : \A u \in counted : u <= t
          missing == job.policy.min_gap_minutes * 60 * TicksPerSecond - (now - last_counted)
          minute == 60 * TicksPerSecond
          ceil_minutes == (missing + minute - 1) \div minute
          again == evaluate_pre_dial_gate(job.payload.account_ref, job.policy,
                                          job.payload.suppression_flags, ledger,
                                          now + Seconds(d.retry_after_seconds))
      IN /\ d.min_gap_blocked_minutes_remaining = ceil_minutes
         /\ d.retry_after_seconds = 60 * ceil_minutes
         /\ d.retry_after_seconds * TicksPerSecond >= missing
         /\ again.reason_code # "blocked_policy_min_gap"

----------------------------------------------------------------------------
(* The attempt ledger written by several processes.  Every process builds   *)
(* its own JsonContactAttemptStore over the attempts directory, so the      *)
(* threading.Lock of append_event excludes nobody in another process: the   *)
(* row is read in one step and written in a later one.                      *)

_read_row_locked(L, account_ref) == L[account_ref]

_write_row_locked(L, account_ref, events) == [L EXCEPT ![account_ref] = events]

MaxEvents == 2

\* append_event up to row["events"].append(event): the row is read and the
\* event built with recorded_at_utc or _utc_now_iso()
AppendRead(w, account_ref, decision_code, job_id, recorded_at_utc) ==
    /\ wpc[w] = "idle"
    /\ Len(ledger[account_ref]) < MaxEvents
    /\ wpc' = [wpc EXCEPT ![w] = "append_write"]
    /\ wsnap' = [wsnap EXCEPT ![w] = _read_row_locked(ledger, account_ref)]
    /\ wleased' = [wleased EXCEPT ![w] =
          [ account_ref |-> account_ref,
            event |-> [ recorded_at_utc |-> IF recorded_at_utc = NoTime THEN now ELSE recorded_at_utc,
                        job_id |-> job_id,
                        call_id |-> NoStr,
                        decision_code |-> decision_code,
                        counts_toward_attempt |-> decision_code = "call_initialized" ] ]]
    /\ UNCHANGED <<jobVars, wjob, wnow, wdec, werr, wdone, callVars>>

\* append_event from row["events"].append(event) on: _write_row_locked, return
AppendWrite(w) ==
    /\ wpc[w] = "append_write"
    /\ ledger' = _write_row_locked(ledger, wleased[w].account_ref, Append(wsnap[w], wleased[w].event))
    /\ wpc' = [wpc EXCEPT ![w] = "idle"]
    /\ wsnap' = [wsnap EXCEPT ![w] = << >>]
    /\ UNCHANGED <<jobs, now, ticks, last, wjob, wleased, wnow, wdec, werr, wdone, callVars>>

\* the decisions written are a dial (counted) and a gate block; the
\* recorded_at_utc argument is None or a timestamp of the caller
NextLedger ==
    \/ \E d \in TickSteps : Tick(d)
    \/ \E w \in Workers, c \in {"call_initialized", "blocked_policy_min_gap"},
             at \in {NoTime, StartNow - Seconds(3600)} :
          AppendRead(w, "acct_1", c, IF w = "w1" THEN 1 ELSE 2, at)
    \/ \E w \in Workers : AppendWrite(w)

SpecLedger == Init /\ [][NextLedger]_vars

----------------------------------------------------------------------------
(* Properties of the ledger under SpecLedger *)

\* C23: the ledger loses nothing under concurrency.  Every event present in an
\* account's list before a step is still present, unmodified and at its
\* place, after it; and an append_event call that returns has added exactly
\* its own event to the list as it stood when the call wrote, so that after
\* any interleaving the list holds every appended event exactly once.
C23_LedgerLosesNothing ==
    /\ [][\A a \in Accounts :
             /\ Len(ledger'[a]) >= Len(ledger[a])
             /\ SubSeq(ledger'[a], 1, Len(ledger[a])) = ledger[a]]_vars
    /\ [][\A w \in Workers : (wpc[w] = "append_write" /\ wpc'[w] = "idle") =>
             ledger'[wleased[w].account_ref] =
                Append(ledger[wleased[w].account_ref], wleased[w].event)]_vars


\* C24: after any sequence of append_event calls, the events of one account as
\* list_events returns them are in non-decreasing recorded_at_utc order.
C24_LedgerOrderedByRecordedAt ==
    \A account_ref \in DOMAIN ledger :
        LET events == list_events(ledger, account_ref)
        IN \A i, j \in 1..Len(events) :
              i < j => events[i].recorded_at_utc <= events[j].recorded_at_utc


\* C25: events with counts_toward_attempt = FALSE never influence dialing.  A
\* ledger, the same ledger without its non-counting events, and the same
\* ledger with one more non-counting event at any place give the same gate
\* decision (same policy, flags and now), the same count for a local day and
\* the same last counted attempt, which is the maximum recorded_at_utc over
\* the counted events whatever their order in the file.
C25_NonCountingEventsIgnored ==
    LET job == jobs[1]
        account_ref == job.payload.account_ref
        events == list_events(ledger, account_ref)
        n == Len(events)
        blocked(t) == [ recorded_at_utc |-> t, job_id |-> 1, call_id |-> NoStr,
                        decision_code |-> "blocked_policy_min_gap",
                        counts_toward_attempt |-> FALSE ]
        counting(e) == e.counts_toward_attempt
        variants ==
            {SelectSeq(events, counting)}
              \cup {SubSeq(events, 1, k) \o << blocked(t) >> \o SubSeq(events, k + 1, n) :
                        k \in 0..n, t \in {HM(4, 58), now - 1, now, HM(0, 0) - Seconds(60)}}
        counted == {events[i].recorded_at_utc : i \in {k \in 1..n : events[k].counts_toward_attempt}}
        days == {LocalDay(now, tz) - d : tz \in {"UTC", "America/Chicago"}, d \in {0, 1}}
    IN /\ \A v \in variants :
            LET other == [ledger EXCEPT ![account_ref] = v]
            IN /\ evaluate_pre_dial_gate(account_ref, job.policy, job.payload.suppression_flags, other, now)
                    = evaluate_pre_dial_gate(account_ref, job.policy, job.payload.suppression_flags, ledger, now)
               /\ \A tz \in {"UTC", "America/Chicago"}, day \in days :
                      count_attempts_for_local_day(other, account_ref, tz, day)
                        = count_attempts_for_local_day(ledger, account_ref, tz, day)
               /\ get_last_counted_attempt_at_utc(other, account_ref)
                    = get_last_counted_attempt_at_utc(ledger, account_ref)
       /\ IF counted = {}
          THEN get_last_counted_attempt_at_utc(ledger, account_ref) = NoTime
          ELSE /\ get_last_counted_attempt_at_utc(ledger, account_ref) \in counted
               /\ \A u \in counted : u <= get_last_counted_attempt_at_utc(ledger, account_ref)
       /\ last = "gate" =>
            wdec["w1"] = evaluate_pre_dial_gate(account_ref, job.policy, job.payload.suppression_flags,
                                                [ledger EXCEPT ![account_ref] = SelectSeq(events, counting)],
                                                now)

\* the gate allowed a dial with one counted attempt today, cap 2, over a
\* ledger that also holds a gate block recorded after that attempt
C25_Witness ==
    /\ last = "gate"
    /\ wdec["w1"].allowed
    /\ wdec["w1"].attempts_today = 1
    /\ jobs[1].policy.daily_attempt_cap = 2
    /\ \E i, j \in 1..Len(ledger["acct_1"]) :
          /\ i < j
          /\ ledger["acct_1"][i].counts_toward_attempt
          /\ ~ledger["acct_1"][j].counts_toward_attempt
          /\ ledger["acct_1"][i].recorded_at_utc < ledger["acct_1"][j].recorded_at_utc


----------------------------------------------------------------------------
(* The dialog engine's counters, under SpecCall *)

C27_TurnCapTerminates ==
    /\ [][StartCall => call.turn_count = 0 /\ call'.turn_count = 1 /\ call'.phase # "ended"]_vars
    /\ [][\A e \in TurnEvents : HandleTurn(e) /\ call.phase # "ended" =>
            /\ call'.turn_count = call.turn_count + 1
            /\ call'.turn_count <= MaxTotalTurns
            /\ call'.turn_count = MaxTotalTurns
                 => /\ call'.phase = "ended"
                    /\ call'.end_reason = "max_turns"
                    /\ HasAction(resp', "end_call")
            /\ call'.end_reason = "max_turns" => call'.turn_count = MaxTotalTurns]_vars
    /\ [](/\ call.turn_count <= MaxTotalTurns
          /\ call.phase # "ended" => call.turn_count < MaxTotalTurns
          /\ \A n \in 2..MaxTotalTurns, e \in TurnEvents :
                (resp # NoResponse /\ call.phase # "ended" /\ call.turn_count < n) =>
                   LET after == handle_turn(e, call, n).call_state
                   IN /\ after.turn_count = call.turn_count + 1
                      /\ after.turn_count <= n
                      /\ after.turn_count = n
                           => after.phase = "ended" /\ after.end_reason = "max_turns"
                      /\ after.phase # "ended" => after.turn_count < n)

\* C27 witness: nothing ended the call before its last allowed turn, which
\* closed it with max_turns
C27_Witness ==
    /\ call.phase = "ended"
    /\ call.end_reason = "max_turns"
    /\ call.turn_count = MaxTotalTurns
    /\ HasAction(resp, "end_call")


\* C28: the silence timeout needs three consecutive silences.  On an open call
\* under the turn cap a silence event or empty transcript adds one to
\* silence_count and any other turn sets it to 0, so silence_count is the
\* length of the run of silent turns that ends with the latest turn (when it
\* is positive the latest response is the silence response).  The first two
\* silences of a run keep the call open with a handle_silence prompt and no
\* actions, the third closes it with silence_timeout, silence_timeout is the
\* outcome of no other turn, and silence_count never exceeds 3.
C28_SilenceTimeoutAfterThree ==
    /\ [][\A e \in TurnEvents :
            (HandleTurn(e) /\ call.phase # "ended" /\ call.turn_count + 1 < MaxTotalTurns) =>
              IF e.event_type = "silence" \/ e.transcript = ""
              THEN /\ call'.silence_count = call.silence_count + 1
                   /\ resp'.nlu.primary_intent = "silence"
                   /\ IF call.silence_count + 1 >= 3
                      THEN /\ call'.phase = "ended"
                           /\ call'.end_reason = "silence_timeout"
                           /\ HasAction(resp', "end_call")
                      ELSE /\ call'.phase = call.phase
                           /\ call'.end_reason = NoStr
                           /\ resp'.assistant_intent = "handle_silence"
                           /\ resp'.assistant_text = "still_there"
                           /\ resp'.actions = << >>
              ELSE /\ call'.silence_count = 0
                   /\ call'.end_reason # "silence_timeout"
                   /\ resp'.nlu.primary_intent # "silence"]_vars
    /\ [][(call'.end_reason = "silence_timeout" /\ call.end_reason # "silence_timeout") =>
            /\ call.silence_count = 2
            /\ call'.silence_count = 3
            /\ resp.assistant_intent = "handle_silence"
            /\ \E e \in TurnEvents :
                  HandleTurn(e) /\ (e.event_type = "silence" \/ e.transcript = "")]_vars
    /\ [][call'.silence_count # call.silence_count =>
            \/ call'.silence_count = 0
            \/ call'.silence_count = call.silence_count + 1]_vars
    /\ [](/\ call.silence_count <= 3
          /\ call.silence_count >= 1 /\ call.phase # "ended"
               => resp.nlu.primary_intent = "silence" /\ resp.assistant_intent = "handle_silence"
          /\ call.silence_count = 3 => call.end_reason = "silence_timeout"
          /\ call.end_reason = "silence_timeout" => call.silence_count = 3 /\ call.phase = "ended")

\* C28 witness: the third silence in a row has closed the call
C28_Witness ==
    /\ call.end_reason = "silence_timeout"
    /\ call.silence_count = 3
    /\ resp.nlu.primary_intent = "silence"
    /\ HasAction(resp, "end_call")


\* C29: low-confidence handling is clarify once, then escalate.  Only the
\* low-confidence handler adds to clarification_attempts, so a step that adds one
\* is an utterance that reached it: the utterance is classified unknown below
\* the threshold; from 0 the answer is the clarification of the call's phase
\* with no actions and the call stays open in its phase; from 1 (no
\* confidently classified utterance since the clarification) the call ends
\* with escalated_low_confidence.  Before and during verification a
\* low-confidence utterance that no earlier branch answers reaches the
\* handler.  Every confidently classified utterance handled under the turn
\* cap sets clarification_attempts to 0; silence leaves it alone.
C29_ClarifyOnceThenEscalate ==
    /\ [][\A e \in TurnEvents :
            (HandleTurn(e) /\ call.phase # "ended" /\ call.turn_count + 1 < MaxTotalTurns) =>
              LET nlu == classify_utterance(e.transcript)
                  silent == e.event_type = "silence" \/ e.transcript = ""
                  attempts == call.clarification_attempts
                  guards == {"stop_request", "goodbye", "human_handoff"}
                  earlier == IF call.phase = "pre_verification"
                             THEN guards \cup {"wrong_party", "identity_question", "affirmation"}
                             ELSE guards \cup {"uncomfortable", "negation", "identity_question"}
                  reaches == /\ ~silent
                             /\ is_low_confidence_unknown(nlu)
                             /\ call.phase \in {"pre_verification", "verification"}
                             /\ \A l \in earlier : ~matched(nlu, l)
                             /\ call.phase = "verification" => _extract_zip(e.transcript) = ""
              IN /\ silent => call'.clarification_attempts = attempts
                 /\ (~silent /\ ~is_low_confidence_unknown(nlu)) => call'.clarification_attempts = 0
                 /\ (~silent /\ is_low_confidence_unknown(nlu))
                      => call'.clarification_attempts \in {attempts, attempts + 1}
                 /\ reaches => call'.clarification_attempts = attempts + 1
                 /\ (~silent /\ is_low_confidence_unknown(nlu)
                        /\ call'.clarification_attempts = attempts + 1) =>
                      IF attempts = 0
                      THEN /\ call'.phase = call.phase
                           /\ call'.end_reason = NoStr
                           /\ resp'.actions = << >>
                           /\ resp'.assistant_intent =
                                 (CASE call.phase = "pre_verification" -> "request_target"
                                    [] call.phase = "verification" -> "verify_identity"
                                    [] OTHER -> "negotiate")
                           /\ resp'.assistant_text =
                                 (CASE call.phase = "pre_verification" -> "clarify_target"
                                    [] call.phase = "verification" -> "clarify_zip"
                                    [] OTHER -> "clarify_date")
                      ELSE /\ attempts = 1
                           /\ call'.phase = "ended"
                           /\ call'.end_reason = "escalated_low_confidence"
                           /\ call'.escalation_flag
                           /\ HasAction(resp', "escalate_to_human")
                           /\ HasAction(resp', "end_call")]_vars
    /\ [][(call'.end_reason = "escalated_low_confidence" /\ call.end_reason # "escalated_low_confidence")
            => call.clarification_attempts = 1 /\ call'.clarification_attempts = 2]_vars
    /\ [](/\ call.clarification_attempts <= 2
          /\ call.clarification_attempts = 2
               => call.phase = "ended" /\ call.end_reason = "escalated_low_confidence")

\* C29 witness: after the ZIP clarification a second unclear utterance has
\* escalated the call
C29_Witness ==
    /\ call.end_reason = "escalated_low_confidence"
    /\ call.clarification_attempts = 2
    /\ call.target_reached = "yes"
    /\ ~call.right_party_verified
    /\ resp.assistant_intent = "escalate"


----------------------------------------------------------------------------
(* The call state's terminal fields, under SpecCall *)

\* C31: in every call state reachable from start_call by handle_turn calls,
\* end_reason is set if and only if the phase is ended, and once set it never
\* changes.
C31_EndReasonIffEnded ==
    /\ [](call.end_reason # NoStr <=> call.phase = "ended")
    /\ [][call.end_reason # NoStr => call'.end_reason = call.end_reason]_vars
    /\ [][(call.phase # "ended" /\ call'.phase = "ended") => call'.end_reason # NoStr]_vars

\* C31 witness: a call closed for a wrong number has answered one more turn
\* and still carries that end_reason
C31_Witness ==
    /\ call.phase = "ended"
    /\ call.end_reason = "wrong_party"
    /\ resp.assistant_intent = "already_closed"

----------------------------------------------------------------------------
(* start_call on any call state: the input is a CallState with any declared *)
(* phase, a turn count and a last question of an earlier conversation.       *)

InitStart ==
    /\ \E phase \in {"pre_verification", "verification", "post_verification",
                     "closing", "escalation", "ended"},
          turn_count \in 0..5,
          question \in {"", "zip_ask"} :
          call = [CallState EXCEPT !.phase = phase,
                                   !.turn_count = turn_count,
                                   !.last_assistant_question = question,
                                   !.end_reason = IF phase = "ended" THEN "user_ended" ELSE NoStr]
    /\ resp = NoResponse
    /\ record = NoRecord
    /\ jobs = << >>
    /\ ledger = [a \in Accounts |-> << >>]
    /\ now = StartNow
    /\ ticks = 0
    /\ last = "returned"
    /\ wpc = [w \in Workers |-> "idle"]
    /\ wjob = [w \in Workers |-> 0]
    /\ wsnap = [w \in Workers |-> << >>]
    /\ wleased = [w \in Workers |-> << >>]
    /\ wnow = [w \in Workers |-> NoTime]
    /\ wdec = [w \in Workers |-> NoDecision]
    /\ werr = [w \in Workers |-> NoStr]
    /\ wdone = [w \in Workers |-> FALSE]

SpecStart == InitStart /\ [][StartCall]_vars

----------------------------------------------------------------------------
(* The call record of POST /call/start and POST /call/turn *)

\* C33: call record finalization is stable.  After a turn whose resulting
\* call state has phase ended, the record has status ended and
\* final_outcome_code equal to that turn's set_outcome code, or to the
\* state's end_reason when the turn carries no set_outcome; status is ended
\* iff last_call_state.phase is ended; and a later turn on the ended call
\* (already_closed) changes none of status, final_outcome_code and
\* final_end_reason.
C33_RecordFinalizationStable ==
    /\ [](record # NoRecord =>
             (record.status = "ended" <=> record.last_call_state.phase = "ended"))
    /\ [][(\E e \in TurnEvents : ApiHandleTurn(e)) /\ call'.phase = "ended" =>
             /\ record'.status = "ended"
             /\ record'.last_call_state = call'
             /\ record'.final_outcome_code =
                    IF HasAction(resp', "set_outcome")
                    THEN _extract_outcome_code(resp'.actions)
                    ELSE call'.end_reason
             /\ record'.final_outcome_code # NoStr]_vars
    /\ [][record.status = "ended" =>
             /\ resp'.assistant_intent = "already_closed"
             /\ record'.status = record.status
             /\ record'.final_outcome_code = record.final_outcome_code
             /\ record'.final_end_reason = record.final_end_reason
             /\ record'.turns = record.turns + 1]_vars

\* C33 witness: a call that ended as wrong_party has had two further turns
\* appended to its record
C33_Witness ==
    /\ record.status = "ended"
    /\ record.final_outcome_code = "wrong_party"
    /\ record.final_end_reason = "wrong_party"
    /\ resp.assistant_intent = "already_closed"
    /\ record.turns >= 4

----------------------------------------------------------------------------
(* The actions a turn returns *)

\* C34: actions mark exactly the terminal turn.  handle_turn returns a
\* non-empty action list iff it moves the call to phase ended; the list
\* starts with set_outcome(code) and ends with end_call(reason), code and
\* reason both being the resulting end_reason; create_promise_to_pay stands
\* between them exactly when the outcome is ptp_set, and
\* escalate_to_human(reason) stands between them exactly when the outcome is
\* escalated_<reason>.
C34_ActionsMarkTerminalTurn ==
    [][\A e \in TurnEvents : HandleTurn(e) =>
          LET actions == resp'.actions
              n == Len(actions)
              between(name) == {i \in 2..(n - 1) : actions[i].action = name}
          IN /\ actions # << >> <=> (call.phase # "ended" /\ call'.phase = "ended")
             /\ actions # << >> =>
                  /\ actions[1] = [action |-> "set_outcome", outcome_code |-> call'.end_reason]
                  /\ actions[n] = [action |-> "end_call", reason |-> call'.end_reason]
                  /\ n >= 2
                  /\ call'.end_reason # NoStr
                  /\ between("create_promise_to_pay") # {} <=> call'.end_reason = "ptp_set"
                  /\ between("escalate_to_human") # {} <=>
                         call'.end_reason \in
                             {"escalated_" \o r :
                                 r \in {"user_requested_human", "dispute", "hard_refusal",
                                        "multiple_refusals", "low_confidence", "unknown"}}
                  /\ \A i \in between("escalate_to_human") :
                         call'.end_reason = "escalated_" \o actions[i].reason
                  /\ \A i \in 1..n :
                         actions[i].action \in {"set_outcome", "end_call"} => i \in {1, n}]_vars

\* C34 witness: a dispute has just been escalated with the three actions in
\* order
C34_Witness ==
    /\ call.phase = "ended"
    /\ call.end_reason = "escalated_dispute"
    /\ Len(resp.actions) = 3
    /\ resp.actions[2] = [action |-> "escalate_to_human", reason |-> "dispute"]

----------------------------------------------------------------------------
(* A call whose turns fall on two local dates: Monday 2026-02-09 and Monday
   2026-03-02.  The host sends current_local_date with every turn event. *)

DatedTurnEvents ==
    {[e EXCEPT !.current_local_date = d] :
        e \in TurnEvents, d \in {CurrentLocalDate, <<2026, 3, 2>>}}

NextDated ==
    \/ StartCall
    \/ \E e \in DatedTurnEvents : HandleTurn(e)

SpecDated == Init /\ [][NextDated]_vars

\* C35: whenever a promise to pay is confirmed, promise_to_pay.date lies in
\* the same calendar year and month as the current_local_date of the turn
\* that confirms it, also when the date was proposed on an earlier turn and
\* the confirming yes comes on a turn with another current_local_date.
C35_PromiseDateInCurrentMonth ==
    [][\A e \in DatedTurnEvents :
          (HandleTurn(e) /\ ~call.promise_to_pay.confirmed /\ call'.promise_to_pay.confirmed) =>
              _is_current_month(call'.promise_to_pay.date, e.current_local_date)]_vars

----------------------------------------------------------------------------
(* escalation_flag and escalation_reason *)

\* C36: in every call state reachable from start_call, escalation_reason is
\* set only when escalation_flag is true; in particular every call that ended
\* with an escalated_* end_reason has escalation_flag = true.
C36_EscalationReasonImpliesFlag ==
    /\ call.escalation_reason # NoStr => call.escalation_flag
    /\ call.end_reason \in {"escalated_" \o r :
                               r \in {"dispute", "hard_refusal", "multiple_refusals",
                                      "low_confidence", "user_requested_human"}}
           => call.escalation_flag

----------------------------------------------------------------------------
(* The order of the phases *)

\* C37: the call phase only moves forward.  From start_call on, the phase
\* changes only along pre_verification -> verification -> post_verification
\* -> ended, where ended may be entered from any phase; no phase is entered
\* again, closing and escalation are never reached, and
\* right_party_verified and disclosure_delivered never go back to false.
C37_PhaseOnlyMovesForward ==
    /\ [](call.phase \in {"pre_verification", "verification", "post_verification", "ended"})
    /\ [][call'.phase # call.phase =>
             \/ call'.phase = "ended"
             \/ call.phase = "pre_verification" /\ call'.phase = "verification"
             \/ call.phase = "verification" /\ call'.phase = "post_verification"]_vars
    /\ [][call.right_party_verified => call'.right_party_verified]_vars
    /\ [][call.disclosure_delivered => call'.disclosure_delivered]_vars

\* C37 witness: a verified call that heard the disclosure has gone through a
\* refusal and a dispute to its end, both flags still set
C37_Witness ==
    /\ call.phase = "ended"
    /\ call.right_party_verified
    /\ call.disclosure_delivered
    /\ call.negotiation_proposals_count = 1
    /\ call.end_reason = "escalated_dispute"

----------------------------------------------------------------------------
(* The persisted job records: state, lease fields and attempts *)

\* C38: the state failed is never persisted.  No job record on disk has
\* state failed; mark_job_failed passes through failed inside its one locked
\* call and, when it returns, has written waiting_retry or dead_letter.
C38_FailedNeverPersisted ==
    /\ [](\A j \in DOMAIN jobs : jobs[j].state \in JobState \ {"failed"})
    /\ [][\A j \in JobIds, e \in ErrorCodes, c \in CallIds :
             (MarkJobFailed(j, e, c) /\ last' = "returned") =>
                 /\ jobs[j].state = "running"
                 /\ jobs'[j].state \in {"waiting_retry", "dead_letter"}
                 /\ jobs'[j].state = "dead_letter" <=>
                        Len(jobs[j].attempts) >= jobs[j].retry_policy.max_attempts]_vars

\* C38 witness: one job waits for its retry after a failed attempt and another
\* is dead-lettered, both written by mark_job_failed
C38_Witness ==
    /\ last = "returned"
    /\ \E j \in DOMAIN jobs :
           /\ jobs[j].state = "dead_letter"
           /\ jobs[j].attempts[Len(jobs[j].attempts)].error_code # NoStr
    /\ \E j \in DOMAIN jobs :
           /\ jobs[j].state = "waiting_retry"
           /\ Len(jobs[j].attempts) >= 1

\* C39: lease fields track the lease.  In every persisted job record,
\* lease_owner and lease_expires_at_utc are set if and only if the state is
\* leased or running; every operation that moves a job out of leased or
\* running (defer, cancel, success, failure with retry, failure with
\* dead-letter) clears both.
C39_LeaseFieldsTrackLease ==
    /\ [](\A j \in DOMAIN jobs :
            /\ jobs[j].lease_owner # NoStr <=> jobs[j].state \in {"leased", "running"}
            /\ jobs[j].lease_expires_at_utc # NoTime <=> jobs[j].state \in {"leased", "running"})
    /\ [][\A j \in DOMAIN jobs :
            (jobs[j].state \in {"leased", "running"} /\ jobs'[j].state \notin {"leased", "running"}) =>
                jobs'[j].lease_owner = NoStr /\ jobs'[j].lease_expires_at_utc = NoTime]_vars

\* C40: attempt records are closed outside running.  In every persisted job
\* record the attempts are numbered 1..len(attempts) in order, every attempt
\* other than the last has ended_at_utc set, and the last attempt has
\* ended_at_utc null if and only if the job's state is running, so every
\* attempt of a job in a terminal state is closed.
C40_AttemptsClosedOutsideRunning ==
    \A j \in DOMAIN jobs :
        LET attempts == jobs[j].attempts
            n == Len(attempts)
        IN /\ \A i \in 1..n : attempts[i].attempt_number = i
           /\ \A i \in 1..(n - 1) : attempts[i].ended_at_utc # NoTime
           /\ n >= 1 => (attempts[n].ended_at_utc = NoTime <=> jobs[j].state = "running")
           /\ jobs[j].state = "running" => n >= 1
           /\ is_terminal_state(jobs[j].state) =>
                  \A i \in 1..n : attempts[i].ended_at_utc # NoTime

====
